---- MODULE Spec2Model ----
(***************************************************************************)
(* Enhanced delete subsystem of construction-estimate-manager:             *)
(*   src/src/utils/deleteHelpers.js   (getErrorType, handleDeleteError,    *)
(*       OptimisticDeleteManager, DeleteRetryManager, DeleteStatsManager,  *)
(*       PerformanceMonitor, MemoryLeakDetector, EventListenerManager)     *)
(*   src/src/hooks/useEnhancedDelete.js   (useEnhancedDelete.executeDelete)*)
(*                                                                         *)
(* The specifications share the variables:                                 *)
(*   SpecRetry     one run of DeleteRetryManager.retryDelete on its own    *)
(*   Spec          one useEnhancedDelete hook and its executeDelete calls  *)
(*   SpecLive      the same when invocations settle and timers fire        *)
(*   SpecConc      two concurrent executeDelete calls for distinct ids     *)
(*   SpecSameId    two overlapping executeDelete calls for the same id     *)
(*   SpecTeardown  the hook with the unmount of its component              *)
(*   SpecOpt       an OptimisticDeleteManager on its own                   *)
(*   SpecOptNull   an OptimisticDeleteManager given null snapshots too     *)
(*   SpecRoundTrip optimisticDelete then rollbackDelete on any collection  *)
(*   SpecStats     a DeleteStatsManager on its own                         *)
(*   SpecWindow    a DeleteStatsManager with a long sample history         *)
(*   SpecPerf      a PerformanceMonitor on its own                         *)
(*   SpecLeak      a MemoryLeakDetector on its own                         *)
(*   SpecClassify  getErrorType applied to one error                       *)
(*   SpecListeners an EventListenerManager and the targets it attaches to  *)
(***************************************************************************)
EXTENDS Integers, Sequences, FiniteSets, TLC

VARIABLES
    now,                \* Date.now() / performance.now(), in ms
    retry,              \* the retryDelete run of SpecRetry
    cfg,                \* options the hook was created with
    calls,              \* per executeDelete call: position, arguments, observations
    projects,           \* the caller's collection behind updateStateCallback
    deletingStates,     \* useState({}) of the hook
    deleteErrors,       \* useState({}) of the hook
    deletedProjects,    \* OptimisticDeleteManager.deletedProjects
    rollbackCallbacks,  \* OptimisticDeleteManager.rollbackCallbacks
    stats,              \* DeleteStatsManager.stats
    metrics,            \* PerformanceMonitor.metrics
    references,         \* MemoryLeakDetector.references
    counters,           \* MemoryLeakDetector.counters
    mounted,            \* the component using the hook is mounted
    checkInterval,      \* MemoryLeakDetector.checkInterval
    timers,             \* the intervals set with setInterval and not cleared
    warnings,           \* what checkForLeaks has written with console.warn
    listeners,          \* EventListenerManager.listeners
    attached            \* the listeners attached to the event targets

vars == <<now, retry, cfg, calls, projects, deletingStates, deleteErrors,
          deletedProjects, rollbackCallbacks, stats, metrics, references, counters,
          mounted, checkInterval, timers, warnings, listeners, attached>>

hookVars == <<cfg, calls, projects, deletingStates, deleteErrors,
              deletedProjects, rollbackCallbacks, stats, metrics, references, counters,
              mounted, checkInterval, timers, warnings, listeners, attached>>

----------------------------------------------------------------------------
(* Bounds of the exploration                                               *)

MaxRetriesBound == 3        \* maxRetries ranges over 0..MaxRetriesBound
MaxConcRetries == 1         \* the same for the calls that run concurrently
MaxOptOps == 4              \* operations on a stand-alone OptimisticDeleteManager
MaxStatOps == 4             \* operations on a stand-alone DeleteStatsManager
MaxTokens == 2              \* token occurrences in a message of SpecClassify
PriorSamples == 98          \* samples recorded before SpecWindow starts
MaxPerfOps == 6             \* operations on a stand-alone PerformanceMonitor
MaxLeakOps == 4             \* operations on a stand-alone MemoryLeakDetector
PreTracked == 99            \* objects tracked under one tag before SpecLeak starts
MaxCollection == 3          \* entities in the collection of SpecRoundTrip
MaxListenerOps == 3         \* operations on a stand-alone EventListenerManager

(* Program constants                                                       *)

DefaultMaxRetries == 3
DefaultBaseDelay == 1000
TestBaseDelay == 100

BaseDelays == {TestBaseDelay, DefaultBaseDelay}

----------------------------------------------------------------------------
(* Small helpers                                                           *)

RECURSIVE Pow2(_)
Pow2(n) == IF n = 0 THEN 1 ELSE 2 * Pow2(n - 1)

RECURSIVE SumSeq(_)
SumSeq(s) == IF s = <<>> THEN 0 ELSE Head(s) + SumSeq(Tail(s))

Count(s, e) == Cardinality({i \in 1..Len(s) : s[i] = e})

FirstIndex(s, e) ==
    IF \E i \in 1..Len(s) : s[i] = e
    THEN CHOOSE i \in 1..Len(s) : s[i] = e /\ \A j \in 1..(i - 1) : s[j] # e
    ELSE 0

----------------------------------------------------------------------------
(* Errors.  A message is the set of the classifier's tokens that occur in  *)
(* it, each with the letter case it occurs in; toLowerCase() folds the     *)
(* case and includes() then tests for the lower-case token.                *)

Tokens == {"network", "fetch", "connection", "permission", "unauthorized",
           "forbidden", "not found", "404", "timeout", "conflict", "409"}

Lower(S) == {[tok |-> t, upper |-> FALSE] : t \in S}
Upper(S) == {[tok |-> t, upper |-> TRUE] : t \in S}

toLowerCase(message) == {[tok |-> o.tok, upper |-> FALSE] : o \in message}

includes(message, t) == [tok |-> t, upper |-> FALSE] \in message

\* new Error(message); oid tells error objects apart
Err(message, oid) ==
    [nullish |-> FALSE, hasMessage |-> TRUE, message |-> message, oid |-> oid]

NoError == [nullish |-> TRUE, hasMessage |-> FALSE, message |-> {}, oid |-> 0]

\* an error object without message property (message undefined)
ErrNoMessage == [nullish |-> FALSE, hasMessage |-> FALSE, message |-> {}, oid |-> 0]

\* variant: the message is searched as it is, in its own letter case
MessageOf_KeepsCase(error) ==
    IF error.nullish \/ ~error.hasMessage THEN {} ELSE error.message

\* error?.message?.toLowerCase() || ''
MessageOf(error) ==
    IF error.nullish \/ ~error.hasMessage THEN {} ELSE toLowerCase(error.message)

\* variant: the timeout token is tested first
getErrorType_TimeoutFirst(error) ==
    LET message == MessageOf(error) IN
    IF includes(message, "timeout") THEN "timeout"
    ELSE IF includes(message, "network") \/ includes(message, "fetch")
          \/ includes(message, "connection") THEN "network"
    ELSE IF includes(message, "permission") \/ includes(message, "unauthorized")
          \/ includes(message, "forbidden") THEN "permission"
    ELSE IF includes(message, "not found") \/ includes(message, "404") THEN "not_found"
    ELSE IF includes(message, "conflict") \/ includes(message, "409") THEN "conflict"
    ELSE "default"

getErrorType(error) ==
    LET message == MessageOf(error) IN
    IF includes(message, "network") \/ includes(message, "fetch")
          \/ includes(message, "connection") THEN "network"
    ELSE IF includes(message, "permission") \/ includes(message, "unauthorized")
          \/ includes(message, "forbidden") THEN "permission"
    ELSE IF includes(message, "not found") \/ includes(message, "404") THEN "not_found"
    ELSE IF includes(message, "timeout") THEN "timeout"
    ELSE IF includes(message, "conflict") \/ includes(message, "409") THEN "conflict"
    ELSE "default"

Categories == {"network", "permission", "not_found", "timeout", "conflict", "default"}

\* the errorMappings table; the default message interpolates projectTitle
errorMappings(projectTitle) ==
    [network    |-> [message |-> <<"network">>, action |-> "retry",
                     severity |-> "warning", retryable |-> TRUE],
     permission |-> [message |-> <<"permission">>, action |-> "reauth",
                     severity |-> "error", retryable |-> FALSE],
     not_found  |-> [message |-> <<"not_found">>, action |-> "refresh",
                     severity |-> "info", retryable |-> FALSE],
     timeout    |-> [message |-> <<"timeout">>, action |-> "retry",
                     severity |-> "warning", retryable |-> TRUE],
     conflict   |-> [message |-> <<"conflict">>, action |-> "refresh",
                     severity |-> "warning", retryable |-> FALSE],
     default    |-> [message |-> <<"default", projectTitle>>, action |-> "none",
                     severity |-> "error", retryable |-> TRUE]]

\* variant: the conflict entry marked retryable
handleDeleteError_ConflictRetryable(error, projectTitle) ==
    LET errorType == getErrorType(error)
        entry == errorMappings(projectTitle)[errorType]
    IN IF errorType = "conflict" THEN [entry EXCEPT !.retryable = TRUE] ELSE entry

handleDeleteError(error, projectTitle) ==
    errorMappings(projectTitle)[getErrorType(error)]

----------------------------------------------------------------------------
(* DeleteRetryManager.retryDelete as transitions of one run.               *)
(*   pc: "idle" not called, "await" deleteFunction(projectId) pending,     *)
(*       "backoff" setTimeout pending, "returned", "thrown"                *)
(*   outcomes: what each settled invocation of deleteFunction gave         *)

ResultValues == {"true", "false", "null"}

\* variant: `if (result !== false)` instead of `if (result)`
IsTruthy_NotFalse(v) == v # "false"

IsTruthy(v) == v = "true"

NewRetryManager(maxRetries, baseDelay) ==
    [pc |-> "idle", maxRetries |-> maxRetries, baseDelay |-> baseDelay,
     attempt |-> 0, invocations |-> 0, waits |-> <<>>, deadline |-> 0,
     outcomes |-> <<>>, result |-> "none", error |-> NoError]

Resolved(v) == [kind |-> "resolved", value |-> v, error |-> NoError]
Rejected(e) == [kind |-> "rejected", value |-> "none", error |-> e]

\* variant: `attempt <= this.maxRetries`
ShouldRetry_OffByOne(errorInfo, attempt, maxRetries) ==
    errorInfo.retryable /\ attempt <= maxRetries

\* variant: `attempt < this.maxRetries - 1`
ShouldRetry_OneFewer(errorInfo, attempt, maxRetries) ==
    errorInfo.retryable /\ attempt < maxRetries - 1

\* errorInfo.retryable && attempt < this.maxRetries
ShouldRetry(errorInfo, attempt, maxRetries) ==
    errorInfo.retryable /\ attempt < maxRetries

\* variant: linear backoff, `this.baseDelay * (attempt + 1)`
BackoffDelay_Linear(baseDelay, attempt) == baseDelay * (attempt + 1)

\* this.baseDelay * Math.pow(2, attempt)
BackoffDelay(baseDelay, attempt) == baseDelay * Pow2(attempt)

\* retryDelete(deleteFunction, projectId): the call up to its first await
RetryInvoke(run) ==
    [run EXCEPT !.pc = "await", !.invocations = @ + 1]

\* variant: `return Boolean(result)`
RetryOnResolve_Coerced(run, v) ==
    [run EXCEPT !.pc = "returned",
                !.result = IF v = "true" THEN "true" ELSE "false",
                !.outcomes = Append(@, Resolved(v))]

\* await deleteFunction(projectId) fulfils with v: return result
RetryOnResolve(run, v) ==
    [run EXCEPT !.pc = "returned", !.result = v,
                !.outcomes = Append(@, Resolved(v))]

\* variant: the retry decision keeps the classification of the first error of the run
RetryOnReject_ClassifyOnce(run, error, clock) ==
    LET first == IF run.outcomes = <<>> THEN error ELSE run.outcomes[1].error
        errorInfo == handleDeleteError(first, "")
    IN
    IF ShouldRetry(errorInfo, run.attempt, run.maxRetries)
    THEN LET delay == BackoffDelay(run.baseDelay, run.attempt) IN
         [run EXCEPT !.pc = "backoff", !.waits = Append(@, delay),
                     !.deadline = clock + delay,
                     !.outcomes = Append(@, Rejected(error))]
    ELSE [run EXCEPT !.pc = "thrown", !.error = error,
                     !.outcomes = Append(@, Rejected(error))]

\* variant: when the run gives up it throws the error of its first attempt
RetryOnReject_ThrowsFirstError(run, error, clock) ==
    LET errorInfo == handleDeleteError(error, "")
        first == IF run.outcomes = <<>> THEN error ELSE run.outcomes[1].error
    IN
    IF ShouldRetry(errorInfo, run.attempt, run.maxRetries)
    THEN LET delay == BackoffDelay(run.baseDelay, run.attempt) IN
         [run EXCEPT !.pc = "backoff", !.waits = Append(@, delay),
                     !.deadline = clock + delay,
                     !.outcomes = Append(@, Rejected(error))]
    ELSE [run EXCEPT !.pc = "thrown", !.error = first,
                     !.outcomes = Append(@, Rejected(error))]


\* await deleteFunction(projectId) rejects with error: the catch block
RetryOnReject(run, error, clock) ==
    LET errorInfo == handleDeleteError(error, "") IN
    IF ShouldRetry(errorInfo, run.attempt, run.maxRetries)
    THEN LET delay == BackoffDelay(run.baseDelay, run.attempt) IN
         [run EXCEPT !.pc = "backoff", !.waits = Append(@, delay),
                     !.deadline = clock + delay,
                     !.outcomes = Append(@, Rejected(error))]
    ELSE [run EXCEPT !.pc = "thrown", !.error = error,
                     !.outcomes = Append(@, Rejected(error))]

\* variant: the retry is made with the same attempt number, `attempt` for `attempt + 1`
RetryOnTimer_SameAttempt(run) == RetryInvoke(run)


\* the backoff timer fires: return this.retryDelete(deleteFunction, projectId, attempt + 1)
RetryOnTimer(run) ==
    RetryInvoke([run EXCEPT !.attempt = @ + 1])

\* a direct `await deleteFunction(projectId)` (enableRetry false): any rejection is thrown
DirectOnReject(run, error) ==
    [run EXCEPT !.pc = "thrown", !.error = error,
                !.outcomes = Append(@, Rejected(error))]

----------------------------------------------------------------------------
(* Messages the delete operation rejects with                              *)

RetryMessages ==
    {Lower({"network"}), Lower({"network", "timeout"}), Upper({"network"}),
     Lower({"timeout"}), Lower({"permission"}), Lower({"not found"}),
     Lower({"conflict"}), Lower({})}

\* the hook is driven with one message per behaviour class:
\* 'network timeout' (retried), 'permission denied' (not retried), no token (default)
HookMessages == {Lower({"network", "timeout"}), Lower({"permission"}), Lower({})}

----------------------------------------------------------------------------
(* JS Map / plain-object state as functions with a growing domain          *)

EmptyMap == [k \in {} |-> 0]
MapHas(m, k) == k \in DOMAIN m
MapSet(m, k, v) == [x \in (DOMAIN m) \cup {k} |-> IF x = k THEN v ELSE m[x]]
MapDelete(m, k) == [x \in (DOMAIN m) \ {k} |-> m[x]]

Null == [isNull |-> TRUE]

----------------------------------------------------------------------------
(* The caller's entities                                                   *)

Calls == {1, 2}
Ids == {"p1", "p2"}

TitleOf(id) == IF id = "p1" THEN "Roof Repair" ELSE "Fence"
CreatedAtOf(id) == IF id = "p1" THEN 1 ELSE 2

Entity(id) == [id |-> id, title |-> TitleOf(id), created_at |-> CreatedAtOf(id)]

NoData == [id |-> "", title |-> "", created_at |-> 0]

\* Array.prototype.sort((a, b) => new Date(b.created_at) - new Date(a.created_at)):
\* stable, newest first
RECURSIVE InsertNewestFirst(_, _)
InsertNewestFirst(sorted, e) ==
    IF sorted = <<>> THEN <<e>>
    ELSE IF Head(sorted).created_at >= e.created_at
         THEN <<Head(sorted)>> \o InsertNewestFirst(Tail(sorted), e)
         ELSE <<e>> \o sorted

RECURSIVE SortNewestFirst(_)
SortNewestFirst(s) ==
    IF s = <<>> THEN <<>>
    ELSE InsertNewestFirst(SortNewestFirst(SubSeq(s, 1, Len(s) - 1)), s[Len(s)])

InCollection(coll, id) == \E i \in 1..Len(coll) : coll[i].id = id

\* the App loads the collection newest first
InitialProjects == SortNewestFirst(<<Entity("p1"), Entity("p2")>>)

----------------------------------------------------------------------------
(* OptimisticDeleteManager: the transformations handed to the callback     *)

\* prevProjects => prevProjects.filter(project => project.id !== projectId)
RemoveTransform(prevProjects, projectId) ==
    SelectSeq(prevProjects, LAMBDA project : project.id # projectId)

\* variant: the snapshot is added without looking for the id
ReinsertTransform_Unguarded(prevProjects, projectId, projectData) ==
    SortNewestFirst(Append(prevProjects, projectData))

\* variant: the snapshot is appended and the array is not sorted
ReinsertTransform_NoSort(prevProjects, projectId, projectData) ==
    IF InCollection(prevProjects, projectId)
    THEN prevProjects
    ELSE Append(prevProjects, projectData)


\* prevProjects => exists ? prevProjects : [...prevProjects, projectData].sort(...)
ReinsertTransform(prevProjects, projectId, projectData) ==
    IF InCollection(prevProjects, projectId)
    THEN prevProjects
    ELSE SortNewestFirst(Append(prevProjects, projectData))

----------------------------------------------------------------------------
(* DeleteStatsManager                                                      *)

RecentWindow == 100

\* variant: the whole history instead of its last n elements
LastN_WholeHistory(s, n) == s

\* s.slice(-n)
LastN(s, n) == IF Len(s) <= n THEN s ELSE SubSeq(s, Len(s) - n + 1, Len(s))

\* averageResponseTime as the exact quotient num / den
Average(s) == [num |-> SumSeq(s), den |-> Len(s)]

NewStats ==
    [totalDeletes |-> 0, successfulDeletes |-> 0, failedDeletes |-> 0,
     errorTypes |-> EmptyMap, averageResponseTime |-> [num |-> 0, den |-> 1],
     responseTimes |-> <<>>]

\* variant: a success is not counted in the total
recordSuccess_NotInTotal(st, startTime, clock) ==
    LET times == Append(st.responseTimes, clock - startTime) IN
    [st EXCEPT !.successfulDeletes = @ + 1,
               !.responseTimes = times,
               !.averageResponseTime = Average(LastN(times, RecentWindow))]

recordSuccess(st, startTime, clock) ==
    LET times == Append(st.responseTimes, clock - startTime) IN
    [st EXCEPT !.totalDeletes = @ + 1, !.successfulDeletes = @ + 1,
               !.responseTimes = times,
               !.averageResponseTime = Average(LastN(times, RecentWindow))]

\* variant: the failure is counted but not under its category
recordFailure_Uncategorised(st, startTime, error, clock) ==
    LET times == Append(st.responseTimes, clock - startTime) IN
    [st EXCEPT !.totalDeletes = @ + 1, !.failedDeletes = @ + 1,
               !.responseTimes = times,
               !.averageResponseTime = Average(LastN(times, RecentWindow))]

recordFailure(st, startTime, error, clock) ==
    LET times == Append(st.responseTimes, clock - startTime)
        errorType == getErrorType(error)
        old == IF MapHas(st.errorTypes, errorType) THEN st.errorTypes[errorType] ELSE 0
    IN
    [st EXCEPT !.totalDeletes = @ + 1, !.failedDeletes = @ + 1,
               !.responseTimes = times,
               !.errorTypes = MapSet(@, errorType, old + 1),
               !.averageResponseTime = Average(LastN(times, RecentWindow))]

\* variant: the sample history and the category map survive the reset
resetStats_KeepsHistory(st) ==
    [NewStats EXCEPT !.responseTimes = st.responseTimes,
                     !.errorTypes = st.errorTypes]

resetStats(st) == NewStats

\* a JavaScript number and a JavaScript string, which are never equal (===)
Number(n) == [number |-> n]
String(str) == [string |-> str]

\* variant: the digits after the first decimal are cut off
toFixed1_Truncates(num, den) ==
    LET n == (10 * num) \div den IN
    ToString(n \div 10) \o "." \o ToString(n % 10)

\* (num / den).toFixed(1) for num >= 0, den > 0: the decimal string of the
\* number of tenths closest to num / den, the larger one of two equally close
toFixed1(num, den) ==
    LET n == (20 * num + den) \div (2 * den) IN
    ToString(n \div 10) \o "." \o ToString(n % 10)

getStats(st) ==
    [totalDeletes |-> st.totalDeletes,
     successfulDeletes |-> st.successfulDeletes,
     failedDeletes |-> st.failedDeletes,
     errorTypes |-> st.errorTypes,
     averageResponseTime |-> st.averageResponseTime,
     responseTimes |-> st.responseTimes,
     successRate |-> IF st.totalDeletes > 0
                     THEN String(toFixed1(st.successfulDeletes * 100, st.totalDeletes))
                     ELSE Number(0)]

----------------------------------------------------------------------------
(* PerformanceMonitor and MemoryLeakDetector, as executeDelete uses them   *)

\* startOperation: the operation id (name-Date.now()-Math.random()) is fresh per call
startOperation(m, operationId, operationName, clock) ==
    MapSet(m, operationId, [name |-> operationName, startTime |-> clock,
                            ended |-> FALSE, endTime |-> 0, duration |-> 0])

endOperation(m, operationId, clock) ==
    IF MapHas(m, operationId)
    THEN [m EXCEPT ![operationId] =
              [@ EXCEPT !.ended = TRUE, !.endTime = clock,
                        !.duration = clock - m[operationId].startTime]]
    ELSE m

\* the two decimal digits of n hundredths
TwoDigits(n) == IF n < 10 THEN "0" \o ToString(n) ELSE ToString(n)

\* (num / den).toFixed(2) for num >= 0, den > 0: the decimal string of the
\* number of hundredths closest to num / den, the larger one of two equally close
toFixed2(num, den) ==
    LET n == (200 * num + den) \div (2 * den) IN
    ToString(n \div 100) \o "." \o TwoDigits(n % 100)

RECURSIVE SumOfDurations(_, _)
SumOfDurations(m, ids) ==
    IF ids = {} THEN 0
    ELSE LET id == CHOOSE i \in ids : TRUE IN
         m[id].duration + SumOfDurations(m, ids \ {id})

\* variant: operations that were started and not ended are aggregated too
getOperationStats_IncludesRunning(m, operationName) ==
    LET operations == {id \in DOMAIN m : m[id].name = operationName}
        durations == {m[id].duration : id \in operations}
    IN IF operations = {} THEN Null
       ELSE [operationName |-> operationName,
             count |-> Cardinality(operations),
             avgDuration |-> toFixed2(SumOfDurations(m, operations),
                                      Cardinality(operations)),
             minDuration |-> toFixed2(CHOOSE d \in durations :
                                         \A e \in durations : d <= e, 1),
             maxDuration |-> toFixed2(CHOOSE d \in durations :
                                         \A e \in durations : d >= e, 1)]

\* getOperationStats(operationName); a record that was not ended has duration null
getOperationStats(m, operationName) ==
    LET operations == {id \in DOMAIN m : m[id].name = operationName /\ m[id].ended}
        durations == {m[id].duration : id \in operations}
    IN IF operations = {} THEN Null
       ELSE [operationName |-> operationName,
             count |-> Cardinality(operations),
             avgDuration |-> toFixed2(SumOfDurations(m, operations),
                                      Cardinality(operations)),
             minDuration |-> toFixed2(CHOOSE d \in durations :
                                         \A e \in durations : d <= e, 1),
             maxDuration |-> toFixed2(CHOOSE d \in durations :
                                         \A e \in durations : d >= e, 1)]

\* this.metrics.clear()
clearMetrics(m) == EmptyMap

LeakTag == "DeleteProjectData"

\* trackObject(obj, type) on the pair (references, counters)
trackObject(ld, obj, type) ==
    [references |-> MapSet(ld.references, obj, type),
     counters |-> MapSet(ld.counters, type,
                         (IF MapHas(ld.counters, type) THEN ld.counters[type] ELSE 0) + 1)]

\* variant: the reference is dropped but the counter is left as it is
untrackObject_KeepsCount(ld, obj) ==
    [references |-> MapDelete(ld.references, obj), counters |-> ld.counters]

untrackObject(ld, obj) ==
    IF MapHas(ld.references, obj)
    THEN LET type == ld.references[obj]
             currentCount == IF MapHas(ld.counters, type) THEN ld.counters[type] ELSE 0
         IN [references |-> MapDelete(ld.references, obj),
             counters |-> MapSet(ld.counters, type,
                                 IF currentCount - 1 > 0 THEN currentCount - 1 ELSE 0)]
    ELSE ld

\* Object.fromEntries(this.counters)
getTrackingStatus(ld) == ld.counters

\* if (count > 100)
LeakThreshold == 100

\* the console.warn calls of the loop over the entries of todo; entries()
\* goes in insertion order, which the model does not keep: the warnings
\* of one call are listed in an arbitrary fixed order
RECURSIVE LeakWarnings(_, _, _)
LeakWarnings(ld, todo, threshold) ==
    IF todo = {} THEN <<>>
    ELSE LET type == CHOOSE t \in todo : TRUE
             rest == LeakWarnings(ld, todo \ {type}, threshold)
         IN IF ld.counters[type] > threshold
            THEN <<[type |-> type, count |-> ld.counters[type]]>> \o rest
            ELSE rest

\* variant: a count of exactly 100 is reported too
checkForLeaks_AtThreshold(ld) == LeakWarnings(ld, DOMAIN ld.counters, LeakThreshold - 1)

\* checkForLeaks(): what it writes with console.warn; it assigns nothing
checkForLeaks(ld) == LeakWarnings(ld, DOMAIN ld.counters, LeakThreshold)

----------------------------------------------------------------------------
(* OptimisticDeleteManager on the hook state S; c is the executeDelete     *)
(* call that runs the method and whose log records the callback calls.     *)

Undefined == [isUndefined |-> TRUE]
MapGet(m, k) == IF MapHas(m, k) THEN m[k] ELSE Undefined
Truthy(x) == x # Null /\ x # Undefined

Callback(c) == [callback |-> c]

optimisticDelete(S, c, projectId, projectData, updateStateCallback) ==
    [S EXCEPT !.deletedProjects = MapSet(@, projectId, projectData),
              !.rollbackCallbacks = MapSet(@, projectId, updateStateCallback),
              !.projects = RemoveTransform(@, projectId),
              !.calls[c].log = Append(@, "remove")]

\* variant: the snapshot is discarded and the callback is kept
confirmDelete_KeepsCallback(S, c, projectId) ==
    [S EXCEPT !.deletedProjects = MapDelete(@, projectId),
              !.calls[c].log = Append(@, "confirmDelete")]

\* variant: confirming one id forgets the pending records of all ids
confirmDelete_ForgetsAll(S, c, projectId) ==
    [S EXCEPT !.deletedProjects = EmptyMap,
              !.rollbackCallbacks = EmptyMap,
              !.calls[c].log = Append(@, "confirmDelete")]

confirmDelete(S, c, projectId) ==
    [S EXCEPT !.deletedProjects = MapDelete(@, projectId),
              !.rollbackCallbacks = MapDelete(@, projectId),
              !.calls[c].log = Append(@, "confirmDelete")]

\* variant: the pending record is dropped without calling the stored callback
rollbackDelete_NoReinsert(S, c, projectId) ==
    [S EXCEPT !.deletedProjects = MapDelete(@, projectId),
              !.rollbackCallbacks = MapDelete(@, projectId)]

\* variant: the stored callback is called once to clear the entry and once to reinsert
rollbackDelete_CallsTwice(S, c, projectId) ==
    LET projectData == MapGet(S.deletedProjects, projectId)
        rollbackCallback == MapGet(S.rollbackCallbacks, projectId)
    IN
    IF Truthy(projectData) /\ Truthy(rollbackCallback)
    THEN [S EXCEPT !.projects = ReinsertTransform(RemoveTransform(@, projectId),
                                                  projectId, projectData),
                   !.deletedProjects = MapDelete(@, projectId),
                   !.rollbackCallbacks = MapDelete(@, projectId),
                   !.calls[rollbackCallback.callback].log = @ \o <<"remove", "reinsert">>]
    ELSE S

rollbackDelete(S, c, projectId) ==
    LET projectData == MapGet(S.deletedProjects, projectId)
        rollbackCallback == MapGet(S.rollbackCallbacks, projectId)
    IN
    IF Truthy(projectData) /\ Truthy(rollbackCallback)
    THEN [S EXCEPT !.projects = ReinsertTransform(@, projectId, projectData),
                   !.deletedProjects = MapDelete(@, projectId),
                   !.rollbackCallbacks = MapDelete(@, projectId),
                   !.calls[rollbackCallback.callback].log = Append(@, "reinsert")]
    ELSE S

\* variant: only the callbacks are forgotten
clearAll_KeepsSnapshots(S) == [S EXCEPT !.rollbackCallbacks = EmptyMap]

clearAll(S) == [S EXCEPT !.deletedProjects = EmptyMap, !.rollbackCallbacks = EmptyMap]

----------------------------------------------------------------------------
(* useEnhancedDelete                                                       *)

CallbackKinds == {"absent", "returns", "throws"}

\* what a throwing onSuccess / onError raises, and the error of line 92
GenericFailure == Err(Lower({}), 50)
OnSuccessException == Err(Lower({}), 60)
OnErrorException == Err(Lower({}), 70)

IdleCall ==
    [pc |-> "idle", id |-> "", hasData |-> FALSE, data |-> NoData, hasCb |-> FALSE,
     run |-> NewRetryManager(0, 0), startTime |-> 0,
     ret |-> "none", thrown |-> NoError, log |-> <<>>,
     onSuccessArgs |-> <<>>, onErrorArgs |-> <<>>]

HookState ==
    [calls |-> calls, projects |-> projects, deletingStates |-> deletingStates,
     deleteErrors |-> deleteErrors, deletedProjects |-> deletedProjects,
     rollbackCallbacks |-> rollbackCallbacks, stats |-> stats, metrics |-> metrics,
     references |-> references, counters |-> counters, mounted |-> mounted,
     checkInterval |-> checkInterval, timers |-> timers, warnings |-> warnings,
     listeners |-> listeners, attached |-> attached]

Commit(S) ==
    /\ calls' = S.calls
    /\ projects' = S.projects
    /\ deletingStates' = S.deletingStates
    /\ deleteErrors' = S.deleteErrors
    /\ deletedProjects' = S.deletedProjects
    /\ rollbackCallbacks' = S.rollbackCallbacks
    /\ stats' = S.stats
    /\ metrics' = S.metrics
    /\ references' = S.references
    /\ counters' = S.counters
    /\ mounted' = S.mounted
    /\ checkInterval' = S.checkInterval
    /\ timers' = S.timers
    /\ warnings' = S.warnings
    /\ listeners' = S.listeners
    /\ attached' = S.attached

Logged(S, c, ev) == [S EXCEPT !.calls[c].log = Append(@, ev)]

Untracked(S, c) ==
    IF S.calls[c].hasData
    THEN LET ld == untrackObject([references |-> S.references, counters |-> S.counters],
                                 S.calls[c].id)
         IN [S EXCEPT !.references = ld.references, !.counters = ld.counters]
    ELSE S

\* variant: the mark is cleared before each return instead of in a finally block
FinallyBlock_SkippedOnThrow(S, c, ret, thrown) ==
    [S EXCEPT !.deletingStates = IF ret = "throws" THEN @
                                 ELSE MapSet(@, S.calls[c].id, FALSE),
              !.calls[c].pc = "done",
              !.calls[c].ret = ret,
              !.calls[c].thrown = thrown]

\* finally { setDeletingStates(prev => ({ ...prev, [projectId]: false })) }
FinallyBlock(S, c, ret, thrown) ==
    [S EXCEPT !.deletingStates = MapSet(@, S.calls[c].id, FALSE),
              !.calls[c].pc = "done",
              !.calls[c].ret = ret,
              !.calls[c].thrown = thrown]

\* variant: a null value removes the key instead of being stored
setDeleteErrors_DropsNull(errors, projectId, value) ==
    IF value = Null THEN MapDelete(errors, projectId) ELSE MapSet(errors, projectId, value)

\* setDeleteErrors(prev => ({ ...prev, [projectId]: value }))
setDeleteErrors(errors, projectId, value) == MapSet(errors, projectId, value)

\* variant: onError is called first, before the rollback and the statistic
CatchBlock_CallbackFirst(S, c, error, clock) ==
    LET call == S.calls[c]
        errorInfo == handleDeleteError(error, IF call.hasData THEN call.data.title ELSE "")
        S1 == IF cfg.onError = "absent" THEN S
              ELSE Logged([S EXCEPT !.calls[c].onErrorArgs =
                               Append(@, [id |-> call.id, error |-> error,
                                          errorInfo |-> errorInfo])],
                          c, "onError")
        S2 == IF cfg.enableOptimisticUpdates THEN rollbackDelete(S1, c, call.id) ELSE S1
        S3 == [S2 EXCEPT !.deleteErrors = setDeleteErrors(@, call.id, errorInfo)]
        S4 == Logged([S3 EXCEPT !.stats = recordFailure(@, call.startTime, error, clock)],
                     c, "recordFailure")
        S5 == [S4 EXCEPT !.metrics = endOperation(@, c, clock)]
        S6 == Untracked(S5, c)
    IN
    IF cfg.onError = "throws"
    THEN FinallyBlock(S6, c, "throws", OnErrorException)
    ELSE FinallyBlock(S6, c, "false", NoError)


\* catch (error) { ... } followed by the finally block
CatchBlock(S, c, error, clock) ==
    LET call == S.calls[c]
        S1 == IF cfg.enableOptimisticUpdates THEN rollbackDelete(S, c, call.id) ELSE S
        errorInfo == handleDeleteError(error, IF call.hasData THEN call.data.title ELSE "")
        S2 == [S1 EXCEPT !.deleteErrors = setDeleteErrors(@, call.id, errorInfo)]
        S3 == Logged([S2 EXCEPT !.stats = recordFailure(@, call.startTime, error, clock)],
                     c, "recordFailure")
        S4 == [S3 EXCEPT !.metrics = endOperation(@, c, clock)]
        S5 == Untracked(S4, c)
        S6 == IF cfg.onError = "absent" THEN S5
              ELSE Logged([S5 EXCEPT !.calls[c].onErrorArgs =
                               Append(@, [id |-> call.id, error |-> error,
                                          errorInfo |-> errorInfo])],
                          c, "onError")
    IN
    IF cfg.onError = "throws"
    THEN FinallyBlock(S6, c, "throws", OnErrorException)
    ELSE FinallyBlock(S6, c, "false", NoError)

\* the try block after `result = await ...` has a value
TryTail(S, c, result, clock) ==
    LET call == S.calls[c] IN
    IF IsTruthy(result)
    THEN LET S1 == confirmDelete(S, c, call.id)
             S2 == Logged([S1 EXCEPT !.stats = recordSuccess(@, call.startTime, clock)],
                          c, "recordSuccess")
             S3 == [S2 EXCEPT !.metrics = endOperation(@, c, clock)]
             S4 == Untracked(S3, c)
             S5 == IF cfg.onSuccess = "absent" THEN S4
                   ELSE Logged([S4 EXCEPT !.calls[c].onSuccessArgs =
                                    Append(@, [id |-> call.id, hasData |-> call.hasData,
                                               data |-> call.data])],
                               c, "onSuccess")
         IN IF cfg.onSuccess = "throws"
            THEN CatchBlock(S5, c, OnSuccessException, clock)
            ELSE FinallyBlock(S5, c, "true", NoError)
    ELSE CatchBlock(S, c, GenericFailure, clock)

\* variant: the optimistic removal is made whatever enableOptimisticUpdates says
ExecuteDeleteHead_IgnoresOption(S, c, projectId, hasData, hasCb, clock) ==
    LET projectData == IF hasData THEN Entity(projectId) ELSE NoData
        S1 == [S EXCEPT !.metrics = startOperation(@, c, projectId, clock)]
        ld == trackObject([references |-> S.references, counters |-> S.counters],
                          projectId, LeakTag)
        S2 == IF hasData
              THEN [S1 EXCEPT !.references = ld.references, !.counters = ld.counters]
              ELSE S1
        S3 == [S2 EXCEPT !.deletingStates = MapSet(@, projectId, TRUE),
                         !.deleteErrors = setDeleteErrors(@, projectId, Null),
                         !.calls[c] = [IdleCall EXCEPT
                                          !.id = projectId, !.hasData = hasData,
                                          !.data = projectData, !.hasCb = hasCb,
                                          !.startTime = clock]]
        S4 == IF hasData /\ hasCb
              THEN optimisticDelete(S3, c, projectId, projectData, Callback(c))
              ELSE S3
        manager == NewRetryManager(IF cfg.enableRetry THEN cfg.maxRetries ELSE 0,
                                   DefaultBaseDelay)
    IN
    Logged([S4 EXCEPT !.calls[c].pc = "await",
                      !.calls[c].run = RetryInvoke(manager)],
           c, "invoke")

\* executeDelete(projectId, projectData, updateStateCallback) up to its first await
ExecuteDeleteHead(S, c, projectId, hasData, hasCb, clock) ==
    LET projectData == IF hasData THEN Entity(projectId) ELSE NoData
        S1 == [S EXCEPT !.metrics = startOperation(@, c, projectId, clock)]
        ld == trackObject([references |-> S.references, counters |-> S.counters],
                          projectId, LeakTag)
        S2 == IF hasData
              THEN [S1 EXCEPT !.references = ld.references, !.counters = ld.counters]
              ELSE S1
        S3 == [S2 EXCEPT !.deletingStates = MapSet(@, projectId, TRUE),
                         !.deleteErrors = setDeleteErrors(@, projectId, Null),
                         !.calls[c] = [IdleCall EXCEPT
                                          !.id = projectId, !.hasData = hasData,
                                          !.data = projectData, !.hasCb = hasCb,
                                          !.startTime = clock]]
        S4 == IF cfg.enableOptimisticUpdates /\ hasData /\ hasCb
              THEN optimisticDelete(S3, c, projectId, projectData, Callback(c))
              ELSE S3
        manager == NewRetryManager(IF cfg.enableRetry THEN cfg.maxRetries ELSE 0,
                                   DefaultBaseDelay)
    IN
    Logged([S4 EXCEPT !.calls[c].pc = "await",
                      !.calls[c].run = RetryInvoke(manager)],
           c, "invoke")

isDeleting(projectId) ==
    MapHas(deletingStates, projectId) /\ deletingStates[projectId]

getDeleteError(projectId) == MapGet(deleteErrors, projectId)

----------------------------------------------------------------------------
(* Spec: the hook                                                          *)
(*                                                                         *)
(* Inputs: the options (optimistic updates and retries on or off,          *)
(* maxRetries, onSuccess / onError absent, returning or throwing), the     *)
(* arguments of each call (id, snapshot and update callback present or     *)
(* not) and the outcome of every invocation of deleteFunction.             *)
(* updateStateCallback is a state setter and returns normally; onSuccess   *)
(* and onError are arbitrary caller code and may throw.  The clock         *)
(* advances with the backoff timers; deleteFunction settles at the current *)
(* clock value.  Next to the options cfg holds the scenario: callers, the   *)
(* calls that are made; args, the <<snapshot given, callback given>> pairs *)
(* they are made with; distinctIds, whether the caller keeps to one call   *)
(* per id (the delete control of an id is disabled once it was used);      *)
(* sameId, whether the calls are for one id and overlap (a call starts     *)
(* only while the calls made before it are suspended); messages, the       *)
(* messages the delete operation rejects with.                             *)

InitRetryIdle == retry = NewRetryManager(0, 0)

InitHookVars(options) ==
    /\ cfg = options
    /\ calls = [c \in Calls |-> IdleCall]
    /\ projects = InitialProjects
    /\ deletingStates = EmptyMap
    /\ deleteErrors = EmptyMap
    /\ deletedProjects = EmptyMap
    /\ rollbackCallbacks = EmptyMap
    /\ stats = NewStats
    /\ metrics = EmptyMap
    /\ references = EmptyMap
    /\ counters = EmptyMap
    /\ mounted = TRUE
    /\ checkInterval = Null
    /\ timers = {}
    /\ warnings = <<>>
    /\ listeners = EmptyMap
    /\ attached = {}

AllArgs == BOOLEAN \X BOOLEAN

HookOptions ==
    { [enableOptimisticUpdates |-> o, enableRetry |-> r, maxRetries |-> m,
       onSuccess |-> s, onError |-> e,
       callers |-> {1}, args |-> AllArgs, distinctIds |-> TRUE,
       sameId |-> FALSE,
       messages |-> HookMessages] :
        o \in BOOLEAN, r \in BOOLEAN, m \in 0..MaxRetriesBound,
        s \in CallbackKinds, e \in CallbackKinds }

Init ==
    /\ now = 0
    /\ InitRetryIdle
    /\ \E options \in HookOptions : InitHookVars(options)

\* a caller invokes executeDelete
Start(c) ==
    /\ c \in cfg.callers
    /\ calls[c].pc = "idle"
    /\ \E projectId \in Ids, a \in cfg.args :
          /\ cfg.distinctIds => \A d \in Calls : calls[d].id # projectId
          /\ cfg.sameId => \A d \in Calls :
                calls[d].pc # "idle" =>
                   calls[d].id = projectId /\ calls[d].pc \in {"await", "backoff"}
          /\ Commit(ExecuteDeleteHead(HookState, c, projectId, a[1], a[2], now))
    /\ UNCHANGED <<now, retry, cfg>>

\* the pending deleteFunction(projectId) fulfils
DeleteResolves(c) ==
    /\ calls[c].pc = "await"
    /\ \E v \in ResultValues :
          LET run == RetryOnResolve(calls[c].run, v)
              S == [HookState EXCEPT !.calls[c].run = run]
          IN Commit(TryTail(S, c, run.result, now))
    /\ UNCHANGED <<now, retry, cfg>>

\* the pending deleteFunction(projectId) rejects
DeleteRejects(c) ==
    /\ calls[c].pc = "await"
    /\ \E message \in cfg.messages :
          LET error == Err(message, calls[c].run.invocations)
              run == IF cfg.enableRetry
                     THEN RetryOnReject(calls[c].run, error, now)
                     ELSE DirectOnReject(calls[c].run, error)
              S == [HookState EXCEPT !.calls[c].run = run]
          IN IF run.pc = "backoff"
             THEN Commit([S EXCEPT !.calls[c].pc = "backoff"])
             ELSE Commit(CatchBlock(S, c, run.error, now))
    /\ UNCHANGED <<now, retry, cfg>>

\* the backoff timer of a call fires; timers fire in deadline order
TimerFires(c) ==
    /\ calls[c].pc = "backoff"
    /\ \A d \in Calls : calls[d].pc = "backoff"
                          => calls[c].run.deadline <= calls[d].run.deadline
    /\ now' = IF calls[c].run.deadline > now THEN calls[c].run.deadline ELSE now
    /\ Commit(Logged([HookState EXCEPT !.calls[c].pc = "await",
                                       !.calls[c].run = RetryOnTimer(@)],
                     c, "invoke"))
    /\ UNCHANGED <<retry, cfg>>

Next ==
    \/ \E c \in Calls : Start(c)
    \/ \E c \in Calls : DeleteResolves(c)
    \/ \E c \in Calls : DeleteRejects(c)
    \/ \E c \in Calls : TimerFires(c)

Spec == Init /\ [][Next]_vars

\* SpecLive: the hook when every invocation of the delete operation
\* eventually settles (an assumption on deleteFunction, which the caller
\* supplies: no call awaits it for ever) and every backoff timer eventually
\* fires (the event loop runs a setTimeout callback that is due)
SpecLive ==
    /\ Init
    /\ [][Next]_vars
    /\ \A c \in Calls : []<>(calls[c].pc # "await")
    /\ \A c \in Calls : WF_vars(TimerFires(c))


----------------------------------------------------------------------------
(* SpecConc: two executeDelete calls on distinct ids, each with a snapshot *)
(* and an update callback and with optimistic updates enabled, under every *)
(* interleaving of their suspension points                                 *)

\* one retryable and one non-retryable rejection
ConcMessages == {Lower({"network", "timeout"}), Lower({"permission"})}

ConcOptions ==
    { [enableOptimisticUpdates |-> TRUE, enableRetry |-> r, maxRetries |-> m,
       onSuccess |-> s, onError |-> e,
       callers |-> Calls, args |-> {<<TRUE, TRUE>>}, distinctIds |-> TRUE,
       sameId |-> FALSE,
       messages |-> ConcMessages] :
        r \in BOOLEAN, m \in 0..MaxConcRetries,
        s \in CallbackKinds, e \in CallbackKinds }

InitConc ==
    /\ now = 0
    /\ InitRetryIdle
    /\ \E options \in ConcOptions : InitHookVars(options)

SpecConc == InitConc /\ [][Next]_vars

----------------------------------------------------------------------------
(* SpecSameId: two executeDelete calls for the same id, each with a        *)
(* snapshot and an update callback and with optimistic updates enabled,    *)
(* the second started while the first is suspended (cfg.sameId)            *)

SameIdOptions ==
    { [enableOptimisticUpdates |-> TRUE, enableRetry |-> r, maxRetries |-> m,
       onSuccess |-> s, onError |-> e,
       callers |-> Calls, args |-> {<<TRUE, TRUE>>}, distinctIds |-> FALSE,
       sameId |-> TRUE, messages |-> ConcMessages] :
        r \in BOOLEAN, m \in 0..MaxConcRetries,
        s \in CallbackKinds, e \in CallbackKinds }

InitSameId ==
    /\ now = 0
    /\ InitRetryIdle
    /\ \E options \in SameIdOptions : InitHookVars(options)

SpecSameId == InitSameId /\ [][Next]_vars

----------------------------------------------------------------------------
(* SpecTeardown: the calls of SpecConc and the unmounting of the component *)
(* that uses the hook, at any moment                                       *)

TeardownOptions ==
    { [enableOptimisticUpdates |-> TRUE, enableRetry |-> r, maxRetries |-> m,
       onSuccess |-> "returns", onError |-> "returns",
       callers |-> Calls, args |-> {<<TRUE, TRUE>>}, distinctIds |-> TRUE,
       sameId |-> FALSE,
       messages |-> ConcMessages] :
        r \in BOOLEAN, m \in 0..MaxConcRetries }

InitTeardown ==
    /\ now = 0
    /\ InitRetryIdle
    /\ \E options \in TeardownOptions : InitHookVars(options)

\* the cleanup of the effect: optimisticManager.current.clearAll(); the calls
\* in flight note it in their logs
Unmount ==
    /\ mounted
    /\ LET S == [clearAll(HookState) EXCEPT !.mounted = FALSE] IN
       Commit([S EXCEPT !.calls = [c \in Calls |->
                  IF calls[c].pc \in {"await", "backoff"}
                  THEN [calls[c] EXCEPT !.log = Append(@, "clearAll")]
                  ELSE calls[c]]])
    /\ UNCHANGED <<now, retry, cfg>>

NextTeardown ==
    \/ Next
    \/ Unmount

SpecTeardown == InitTeardown /\ [][NextTeardown]_vars

----------------------------------------------------------------------------
(* SpecRetry: DeleteRetryManager.retryDelete on its own                    *)

InitRetry ==
    /\ now = 0
    /\ \E m \in 0..MaxRetriesBound, b \in BaseDelays : retry = NewRetryManager(m, b)
    /\ InitHookVars([enableOptimisticUpdates |-> TRUE, enableRetry |-> TRUE,
                     maxRetries |-> DefaultMaxRetries, onSuccess |-> "absent",
                     onError |-> "absent",
                     callers |-> {}, args |-> AllArgs, distinctIds |-> TRUE,
       sameId |-> FALSE,
                     messages |-> HookMessages])

\* retryDelete(deleteFunction, projectId) is called
RetryStart ==
    /\ retry.pc = "idle"
    /\ retry' = RetryInvoke(retry)
    /\ UNCHANGED <<now, hookVars>>

RetryResolves ==
    /\ retry.pc = "await"
    /\ \E v \in ResultValues : retry' = RetryOnResolve(retry, v)
    /\ UNCHANGED <<now, hookVars>>

RetryRejects ==
    /\ retry.pc = "await"
    /\ \E message \in RetryMessages :
          retry' = RetryOnReject(retry, Err(message, retry.invocations), now)
    /\ UNCHANGED <<now, hookVars>>

RetryTimerFires ==
    /\ retry.pc = "backoff"
    /\ now' = retry.deadline
    /\ retry' = RetryOnTimer(retry)
    /\ UNCHANGED hookVars

NextRetry ==
    \/ RetryStart
    \/ RetryResolves
    \/ RetryRejects
    \/ RetryTimerFires

SpecRetry == InitRetry /\ [][NextRetry]_vars

----------------------------------------------------------------------------
(* SpecOpt: an OptimisticDeleteManager on its own.  Two callers hold an    *)
(* update callback each for the one collection; a caller's operations are  *)
(* logged in its calls[c].log, and so are the invocations of its callback. *)

\* the options of the hook while a component is driven on its own
StandaloneOptions ==
    [enableOptimisticUpdates |-> TRUE, enableRetry |-> TRUE,
     maxRetries |-> DefaultMaxRetries, onSuccess |-> "absent", onError |-> "absent",
     callers |-> {}, args |-> AllArgs, distinctIds |-> TRUE, sameId |-> FALSE,
     messages |-> HookMessages]

InitOpt ==
    /\ now = 0
    /\ InitRetryIdle
    /\ InitHookVars(StandaloneOptions)

OptOperations == {"remove", "confirmDelete", "rollbackDelete", "clearAll", "refresh"}

\* the number of operations made so far
OptOps ==
    Cardinality({<<c, i>> \in Calls \X (1..(2 * MaxOptOps)) :
                    i <= Len(calls[c].log) /\ calls[c].log[i] \in OptOperations})

\* manager.optimisticDelete(id, snapshot, callback of c)
OptDelete(c, id) ==
    /\ OptOps < MaxOptOps
    /\ Commit(optimisticDelete(HookState, c, id, Entity(id), Callback(c)))
    /\ UNCHANGED <<now, retry, cfg>>

\* manager.confirmDelete(id)
OptConfirm(c, id) ==
    /\ OptOps < MaxOptOps
    /\ Commit(confirmDelete(HookState, c, id))
    /\ UNCHANGED <<now, retry, cfg>>

\* manager.rollbackDelete(id)
OptRollback(c, id) ==
    /\ OptOps < MaxOptOps
    /\ Commit(rollbackDelete(Logged(HookState, c, "rollbackDelete"), c, id))
    /\ UNCHANGED <<now, retry, cfg>>

\* manager.clearAll()
OptClearAll(c) ==
    /\ OptOps < MaxOptOps
    /\ Commit(clearAll(Logged(HookState, c, "clearAll")))
    /\ UNCHANGED <<now, retry, cfg>>

\* the caller reloads its collection from the backend, where nothing was
\* deleted: no delete operation is part of this specification
OptRefresh(c) ==
    /\ OptOps < MaxOptOps
    /\ Commit([Logged(HookState, c, "refresh") EXCEPT !.projects = InitialProjects])
    /\ UNCHANGED <<now, retry, cfg>>

NextOpt ==
    \/ \E c \in Calls, id \in Ids : OptDelete(c, id)
    \/ \E c \in Calls, id \in Ids : OptConfirm(c, id)
    \/ \E c \in Calls, id \in Ids : OptRollback(c, id)
    \/ OptClearAll(1)
    \/ OptRefresh(1)

SpecOpt == InitOpt /\ [][NextOpt]_vars

\* SpecOptNull: the manager used by one caller that also passes null for the
\* snapshot, which optimisticDelete stores like any other value

\* manager.optimisticDelete(id, null, callback of c)
OptDeleteNull(c, id) ==
    /\ OptOps < MaxOptOps
    /\ Commit(optimisticDelete(HookState, c, id, Null, Callback(c)))
    /\ UNCHANGED <<now, retry, cfg>>

NextOptNull ==
    \/ \E id \in Ids : OptDelete(1, id)
    \/ \E id \in Ids : OptDeleteNull(1, id)
    \/ \E id \in Ids : OptConfirm(1, id)
    \/ \E id \in Ids : OptRollback(1, id)

SpecOptNull == InitOpt /\ [][NextOptNull]_vars

----------------------------------------------------------------------------
(* SpecRoundTrip: one optimisticDelete followed by the rollbackDelete of   *)
(* the same id, on a collection of the caller's choice: any sequence of up *)
(* to MaxCollection entities with distinct ids, in any order, two of which *)
(* may have the same created_at.  cfg.collection keeps the collection the  *)
(* caller started with; the snapshot handed to optimisticDelete is the     *)
(* entity as it is in the collection.                                      *)

RoundTripIds == {"p" \o ToString(i) : i \in 1..MaxCollection}
RoundTripDates == {CreatedAtOf(id) : id \in Ids}

RoundTripEntities ==
    {[id |-> id, title |-> TitleOf(id), created_at |-> t] :
        id \in RoundTripIds, t \in RoundTripDates}

RoundTripCollections ==
    {s \in UNION {[1..n -> RoundTripEntities] : n \in 1..MaxCollection} :
        \A i, j \in 1..Len(s) : i # j => s[i].id # s[j].id}

RoundTripOptions ==
    {[enableOptimisticUpdates |-> TRUE, enableRetry |-> TRUE,
      maxRetries |-> DefaultMaxRetries, onSuccess |-> "absent", onError |-> "absent",
      callers |-> {}, args |-> {<<TRUE, TRUE>>}, distinctIds |-> TRUE,
      sameId |-> FALSE, messages |-> HookMessages,
      collection |-> s] : s \in RoundTripCollections}

InitRoundTrip ==
    /\ now = 0
    /\ InitRetryIdle
    /\ cfg \in RoundTripOptions
    /\ calls = [c \in Calls |-> IdleCall]
    /\ projects = cfg.collection
    /\ deletingStates = EmptyMap
    /\ deleteErrors = EmptyMap
    /\ deletedProjects = EmptyMap
    /\ rollbackCallbacks = EmptyMap
    /\ stats = NewStats
    /\ metrics = EmptyMap
    /\ references = EmptyMap
    /\ counters = EmptyMap
    /\ mounted = TRUE
    /\ checkInterval = Null
    /\ timers = {}
    /\ warnings = <<>>
    /\ listeners = EmptyMap
    /\ attached = {}

\* manager.optimisticDelete(id, the entity of that id, setProjects)
RoundTripDelete(id) ==
    /\ calls[1].log = <<>>
    /\ InCollection(projects, id)
    /\ LET snapshot == projects[CHOOSE i \in 1..Len(projects) : projects[i].id = id]
           S == [HookState EXCEPT !.calls[1].id = id, !.calls[1].data = snapshot]
       IN Commit(optimisticDelete(S, 1, id, snapshot, Callback(1)))
    /\ UNCHANGED <<now, retry, cfg>>

\* manager.rollbackDelete(id), for the id that was removed
RoundTripRollback ==
    /\ calls[1].log = <<"remove">>
    /\ Commit(rollbackDelete(HookState, 1, calls[1].id))
    /\ UNCHANGED <<now, retry, cfg>>

NextRoundTrip ==
    \/ \E id \in RoundTripIds : RoundTripDelete(id)
    \/ RoundTripRollback

SpecRoundTrip == InitRoundTrip /\ [][NextRoundTrip]_vars

----------------------------------------------------------------------------
(* SpecStats: a DeleteStatsManager on its own.  calls[1].log keeps the     *)
(* operations made and calls[1].onErrorArgs the errors handed to           *)
(* recordFailure.                                                          *)

\* one message per category, and one with tokens of two categories
StatsMessages ==
    {Lower({"network"}), Lower({"permission"}), Lower({"not found"}),
     Lower({"timeout"}), Lower({"conflict"}), Lower({}),
     Lower({"network", "timeout"})}

\* milliseconds between startDelete() and the record of a success, of a failure
StatsElapsed == {100, 300}
FailureElapsed == {200}

\* cfg.messages holds the messages of the errors handed to recordFailure
StatsOptions == [StandaloneOptions EXCEPT !.messages = StatsMessages]

InitStats ==
    /\ now = 0
    /\ InitRetryIdle
    /\ InitHookVars(StatsOptions)

StatsRecordSuccess ==
    /\ Len(calls[1].log) < MaxStatOps
    /\ \E elapsed \in StatsElapsed :
          /\ now' = now + elapsed
          /\ Commit([Logged(HookState, 1, "recordSuccess") EXCEPT
                        !.stats = recordSuccess(@, now, now')])
    /\ UNCHANGED <<retry, cfg>>

StatsRecordFailure ==
    /\ Len(calls[1].log) < MaxStatOps
    /\ \E elapsed \in FailureElapsed, message \in cfg.messages :
          LET error == Err(message, Len(calls[1].log) + 1) IN
          /\ now' = now + elapsed
          /\ Commit([Logged(HookState, 1, "recordFailure") EXCEPT
                        !.stats = recordFailure(@, now, error, now'),
                        !.calls[1].onErrorArgs = Append(@, error)])
    /\ UNCHANGED <<retry, cfg>>

StatsReset ==
    /\ Len(calls[1].log) < MaxStatOps
    /\ Commit([Logged(HookState, 1, "resetStats") EXCEPT !.stats = resetStats(@)])
    /\ UNCHANGED <<now, retry, cfg>>

NextStats ==
    \/ StatsRecordSuccess
    \/ StatsRecordFailure
    \/ StatsReset

SpecStats == InitStats /\ [][NextStats]_vars

----------------------------------------------------------------------------
(* SpecWindow: a DeleteStatsManager that has already recorded PriorSamples *)
(* successes, a slow one first, so that the next records push the history  *)
(* past the 100 samples the average is taken over.                         *)

\* elapsed milliseconds of the first recorded sample and of the later ones
SlowElapsed == 300
UsualElapsed == 100

\* the manager after n calls of recordSuccess, the first one slow
Preloaded(n) ==
    LET times == [i \in 1..n |-> IF i = 1 THEN SlowElapsed ELSE UsualElapsed] IN
    [totalDeletes |-> n, successfulDeletes |-> n, failedDeletes |-> 0,
     errorTypes |-> EmptyMap,
     averageResponseTime |-> Average(LastN(times, RecentWindow)),
     responseTimes |-> times]

WindowOptions == [StandaloneOptions EXCEPT !.messages = {Lower({"timeout"})}]

InitWindow ==
    /\ now = 0
    /\ InitRetryIdle
    /\ cfg = WindowOptions
    /\ calls = [c \in Calls |-> IdleCall]
    /\ projects = InitialProjects
    /\ deletingStates = EmptyMap
    /\ deleteErrors = EmptyMap
    /\ deletedProjects = EmptyMap
    /\ rollbackCallbacks = EmptyMap
    /\ stats = Preloaded(PriorSamples)
    /\ metrics = EmptyMap
    /\ references = EmptyMap
    /\ counters = EmptyMap
    /\ mounted = TRUE
    /\ checkInterval = Null
    /\ timers = {}
    /\ warnings = <<>>
    /\ listeners = EmptyMap
    /\ attached = {}

SpecWindow == InitWindow /\ [][NextStats]_vars

----------------------------------------------------------------------------
(* SpecClassify: getErrorType applied to one error.  calls[1].thrown is    *)
(* the error and calls[1].log receives the category returned.              *)

\* the subsets of S with at most k elements
RECURSIVE SetsUpTo(_, _)
SetsUpTo(S, k) ==
    IF k = 0 THEN {{}}
    ELSE LET smaller == SetsUpTo(S, k - 1) IN
         smaller \cup {m \cup {x} : m \in smaller, x \in S}

\* messages with up to MaxTokens occurrences of tokens, in either letter case
ClassifyMessages == SetsUpTo(Lower(Tokens) \cup Upper(Tokens), MaxTokens)

\* null or undefined, an object without message, an error with a message
ClassifyInputs == {NoError, ErrNoMessage} \cup {Err(m, 0) : m \in ClassifyMessages}

InitClassify ==
    /\ now = 0
    /\ InitRetryIdle
    /\ cfg = StandaloneOptions
    /\ \E error \in ClassifyInputs :
          calls = [c \in Calls |-> IF c = 1 THEN [IdleCall EXCEPT !.thrown = error]
                                   ELSE IdleCall]
    /\ projects = InitialProjects
    /\ deletingStates = EmptyMap
    /\ deleteErrors = EmptyMap
    /\ deletedProjects = EmptyMap
    /\ rollbackCallbacks = EmptyMap
    /\ stats = NewStats
    /\ metrics = EmptyMap
    /\ references = EmptyMap
    /\ counters = EmptyMap
    /\ mounted = TRUE
    /\ checkInterval = Null
    /\ timers = {}
    /\ warnings = <<>>
    /\ listeners = EmptyMap
    /\ attached = {}

\* getErrorType(error)
Classify ==
    /\ calls[1].log = <<>>
    /\ Commit(Logged(HookState, 1, getErrorType(calls[1].thrown)))
    /\ UNCHANGED <<now, retry, cfg>>

NextClassify == Classify

SpecClassify == InitClassify /\ [][NextClassify]_vars

----------------------------------------------------------------------------
(* SpecPerf: a PerformanceMonitor on its own.  calls[1].log keeps the      *)
(* operations made, each with its arguments and the time it read.          *)

PerfNames == {"test-delete", "test-delete-2"}

\* milliseconds that pass before an endOperation call
PerfElapsed == {100, 150}

InitPerf ==
    /\ now = 0
    /\ InitRetryIdle
    /\ InitHookVars(StandaloneOptions)

PerfOps == Len(calls[1].log)

PerfLogged(S, op, name, id, at) ==
    [S EXCEPT !.calls[1].log = Append(@, [op |-> op, name |-> name, id |-> id, at |-> at])]

\* the operation id the next startOperation() makes
NextOperationId ==
    Count([i \in 1..PerfOps |-> calls[1].log[i].op], "startOperation") + 1

\* monitor.startOperation(name)
PerfStart(name) ==
    /\ PerfOps < MaxPerfOps
    /\ Commit([PerfLogged(HookState, "startOperation", name, NextOperationId, now) EXCEPT
                  !.metrics = startOperation(@, NextOperationId, name, now)])
    /\ UNCHANGED <<now, retry, cfg>>

\* monitor.endOperation(id), for an id startOperation returned or any other
PerfEnd(id) ==
    /\ PerfOps < MaxPerfOps
    /\ \E elapsed \in PerfElapsed :
          /\ now' = now + elapsed
          /\ Commit([PerfLogged(HookState, "endOperation", "", id, now') EXCEPT
                        !.metrics = endOperation(@, id, now')])
    /\ UNCHANGED <<retry, cfg>>

\* monitor.clearMetrics()
PerfClear ==
    /\ PerfOps < MaxPerfOps
    /\ Commit([PerfLogged(HookState, "clearMetrics", "", 0, now) EXCEPT
                  !.metrics = clearMetrics(@)])
    /\ UNCHANGED <<now, retry, cfg>>

NextPerf ==
    \/ \E name \in PerfNames : PerfStart(name)
    \/ \E id \in 1..NextOperationId : PerfEnd(id)
    \/ PerfClear

SpecPerf == InitPerf /\ [][NextPerf]_vars

----------------------------------------------------------------------------
(* SpecLeak: a MemoryLeakDetector on its own, new or with objects already  *)
(* tracked up to the warning threshold.  calls[1].log keeps the operations *)
(* made, each with getTrackingStatus() before and after it.                *)

TestTag == "TestObject"
LeakTags == {TestTag, LeakTag}

\* objects 1..PreTracked are tracked as TestTag and the next PreTracked + 1
\* objects as LeakTag
PreTrackedObjects == 1..(2 * PreTracked + 1)
PreTrackedTag(obj) == IF obj <= PreTracked THEN TestTag ELSE LeakTag

\* the objects the operations of the run are made on
LeakObjects == {-1, -2}

LeakDetector(S) == [references |-> S.references, counters |-> S.counters]

InitLeak ==
    /\ now = 0
    /\ InitRetryIdle
    /\ cfg = StandaloneOptions
    /\ calls = [c \in Calls |-> IdleCall]
    /\ projects = InitialProjects
    /\ deletingStates = EmptyMap
    /\ deleteErrors = EmptyMap
    /\ deletedProjects = EmptyMap
    /\ rollbackCallbacks = EmptyMap
    /\ stats = NewStats
    /\ metrics = EmptyMap
    /\ \/ references = EmptyMap /\ counters = EmptyMap
       \/ /\ references = [obj \in PreTrackedObjects |-> PreTrackedTag(obj)]
          /\ counters = [type \in LeakTags |->
                            Cardinality({obj \in PreTrackedObjects :
                                           PreTrackedTag(obj) = type})]
    /\ mounted = TRUE
    /\ checkInterval = Null
    /\ timers = {}
    /\ warnings = <<>>
    /\ listeners = EmptyMap
    /\ attached = {}

\* the step from S to T was the operation op on obj with tag type
LeakLogged(S, T, op, obj, type) ==
    [T EXCEPT !.calls[1].log =
        Append(@, [op |-> op, obj |-> obj, type |-> type,
                   before |-> getTrackingStatus(LeakDetector(S)),
                   after |-> getTrackingStatus(LeakDetector(T))])]

LeakOps == Len(calls[1].log)

\* detector.trackObject(obj, type)
LeakTrack(obj, type) ==
    /\ LeakOps < MaxLeakOps
    /\ LET S == HookState
           ld == trackObject(LeakDetector(S), obj, type)
           T == [S EXCEPT !.references = ld.references, !.counters = ld.counters]
       IN Commit(LeakLogged(S, T, "trackObject", obj, type))
    /\ UNCHANGED <<now, retry, cfg>>

\* detector.untrackObject(obj)
LeakUntrack(obj) ==
    /\ LeakOps < MaxLeakOps
    /\ LET S == HookState
           ld == untrackObject(LeakDetector(S), obj)
           T == [S EXCEPT !.references = ld.references, !.counters = ld.counters]
       IN Commit(LeakLogged(S, T, "untrackObject", obj, ""))
    /\ UNCHANGED <<now, retry, cfg>>

\* detector.checkForLeaks()
LeakCheck ==
    /\ LeakOps < MaxLeakOps
    /\ LET S == HookState
           T == [S EXCEPT !.warnings = @ \o checkForLeaks(LeakDetector(S))]
       IN Commit(LeakLogged(S, T, "checkForLeaks", 0, ""))
    /\ UNCHANGED <<now, retry, cfg>>

\* the handle of an interval: a value that is not null
Timer(n) == [timer |-> n]

\* the handle the next setInterval() returns
NextTimer ==
    Timer(Count([i \in 1..LeakOps |-> calls[1].log[i].op], "startLeakDetection") + 1)

\* this.checkInterval = setInterval(() => this.checkForLeaks(), interval)
startLeakDetection(S, timer) ==
    [S EXCEPT !.timers = @ \cup {timer}, !.checkInterval = timer]

stopLeakDetection(S) ==
    IF S.checkInterval # Null
    THEN [S EXCEPT !.timers = @ \ {S.checkInterval}, !.checkInterval = Null]
    ELSE S

\* detector.startLeakDetection(interval)
LeakStart ==
    /\ LeakOps < MaxLeakOps
    /\ LET S == HookState
       IN Commit(LeakLogged(S, startLeakDetection(S, NextTimer),
                            "startLeakDetection", NextTimer, ""))
    /\ UNCHANGED <<now, retry, cfg>>

\* detector.stopLeakDetection()
LeakStop ==
    /\ LeakOps < MaxLeakOps
    /\ LET S == HookState
       IN Commit(LeakLogged(S, stopLeakDetection(S), "stopLeakDetection", 0, ""))
    /\ UNCHANGED <<now, retry, cfg>>

\* an interval that was set and not cleared fires: () => this.checkForLeaks()
LeakTimerFires(timer) ==
    /\ LeakOps < MaxLeakOps
    /\ timer \in timers
    /\ LET S == HookState
           T == [S EXCEPT !.warnings = @ \o checkForLeaks(LeakDetector(S))]
       IN Commit(LeakLogged(S, T, "timer", timer, ""))
    /\ UNCHANGED <<now, retry, cfg>>

NextLeak ==
    \/ \E obj \in LeakObjects, type \in LeakTags : LeakTrack(obj, type)
    \/ \E obj \in LeakObjects : LeakUntrack(obj)
    \/ LeakCheck
    \/ LeakStart
    \/ LeakStop
    \/ \E timer \in timers : LeakTimerFires(timer)

SpecLeak == InitLeak /\ [][NextLeak]_vars

----------------------------------------------------------------------------
(* SpecListeners: an EventListenerManager on its own, with the event       *)
(* targets it is given.  A target is an object with an identity and the    *)
(* name of its constructor, a listener a function with an identity and a   *)
(* name, "" for a function without one.  attached holds what the targets   *)
(* have attached: an event target keeps a listener once per type, however  *)
(* often it is added.  The options argument is left at its default.        *)
(* calls[1].log keeps the operations made, each with its arguments and the *)
(* manager and targets as they were before it.                             *)

\* two elements of one class
ListenerTargets ==
    {[element |-> e, constructor |-> "MockElement"] : e \in {1, 2}}

ListenerTypes == {"click", "keydown"}

\* two functions without a name and one with a name
ListenerFunctions ==
    {[fn |-> 1, name |-> ""], [fn |-> 2, name |-> ""],
     [fn |-> 3, name |-> "handleClick"]}

ListenerInfo(target, type, listener) ==
    [target |-> target, type |-> type, listener |-> listener]

\* `${target.constructor.name}-${type}-${listener.name || 'anonymous'}`
getListenerKey(target, type, listener) ==
    target.constructor \o "-" \o type \o "-"
        \o (IF listener.name = "" THEN "anonymous" ELSE listener.name)

ListenerManager(S) == [listeners |-> S.listeners, attached |-> S.attached]

\* addEventListener(target, type, listener)
addEventListener(lm, target, type, listener) ==
    LET key == getListenerKey(target, type, listener) IN
    IF ~MapHas(lm.listeners, key)
    THEN [listeners |-> MapSet(lm.listeners, key, ListenerInfo(target, type, listener)),
          attached |-> lm.attached \cup {ListenerInfo(target, type, listener)}]
    ELSE lm

\* removeEventListener(target, type, listener): the call is made on the
\* target given, with the type and listener given
removeEventListener(lm, target, type, listener) ==
    LET key == getListenerKey(target, type, listener) IN
    IF MapHas(lm.listeners, key)
    THEN [listeners |-> MapDelete(lm.listeners, key),
          attached |-> lm.attached \ {ListenerInfo(target, type, listener)}]
    ELSE lm

\* removeAllListeners()
removeAllListeners(lm) ==
    [listeners |-> EmptyMap,
     attached |-> lm.attached \ {lm.listeners[key] : key \in DOMAIN lm.listeners}]

InitListeners ==
    /\ now = 0
    /\ InitRetryIdle
    /\ InitHookVars(StandaloneOptions)

ListenerOps == Len(calls[1].log)

\* the step from S to the manager lm was the operation entry
ListenerLogged(S, lm, entry) ==
    [S EXCEPT !.listeners = lm.listeners,
              !.attached = lm.attached,
              !.calls[1].log = Append(@, entry)]

\* manager.addEventListener(target, type, listener)
ListenerAdd(target, type, listener) ==
    /\ ListenerOps < MaxListenerOps
    /\ LET S == HookState
           lm == ListenerManager(S)
       IN Commit(ListenerLogged(S, addEventListener(lm, target, type, listener),
                                [op |-> "addEventListener",
                                 info |-> ListenerInfo(target, type, listener),
                                 before |-> lm]))
    /\ UNCHANGED <<now, retry, cfg>>

\* manager.removeEventListener(target, type, listener)
ListenerRemove(target, type, listener) ==
    /\ ListenerOps < MaxListenerOps
    /\ LET S == HookState
           lm == ListenerManager(S)
       IN Commit(ListenerLogged(S, removeEventListener(lm, target, type, listener),
                                [op |-> "removeEventListener",
                                 info |-> ListenerInfo(target, type, listener),
                                 before |-> lm]))
    /\ UNCHANGED <<now, retry, cfg>>

\* manager.removeAllListeners()
ListenerRemoveAll ==
    /\ ListenerOps < MaxListenerOps
    /\ LET S == HookState
           lm == ListenerManager(S)
       IN Commit(ListenerLogged(S, removeAllListeners(lm),
                                [op |-> "removeAllListeners", before |-> lm]))
    /\ UNCHANGED <<now, retry, cfg>>

NextListeners ==
    \/ \E target \in ListenerTargets, type \in ListenerTypes,
          listener \in ListenerFunctions : ListenerAdd(target, type, listener)
    \/ \E target \in ListenerTargets, type \in ListenerTypes,
          listener \in ListenerFunctions : ListenerRemove(target, type, listener)
    \/ ListenerRemoveAll

SpecListeners == InitListeners /\ [][NextListeners]_vars

----------------------------------------------------------------------------
(* Vocabulary of the properties                                            *)

Retryable(error) == getErrorType(error) \in {"network", "timeout", "default"}

IsRejection(o) == o.kind = "rejected"
IsResolution(o) == o.kind = "resolved"

AllRejectedWith(outcomes, message) ==
    \A i \in 1..Len(outcomes) :
        IsRejection(outcomes[i]) /\ outcomes[i].error.message = message

Settled(c) == calls[c].pc = "done"

\* the call's final outcome of the delete operation
FinallyRejected(c) == Settled(c) /\ calls[c].run.pc = "thrown"
FinallyResolved(c) == Settled(c) /\ calls[c].run.pc = "returned"

\* optimistic updates were active for the call (line 61)
OptimisticActive(c) ==
    cfg.enableOptimisticUpdates /\ calls[c].hasData /\ calls[c].hasCb

SnapshotTitle(c) == IF calls[c].hasData THEN calls[c].data.title ELSE ""

----------------------------------------------------------------------------
(* C4 -- RetryPolicy exhaustion.  retryDelete never invokes the delete     *)
(* operation more than 1 + maxRetries times; when every attempt rejects    *)
(* with a retryable error, retryDelete gives up only after exactly         *)
(* 1 + maxRetries invocations and then rejects with the error of the last  *)
(* attempt, unchanged.                                                     *)
C4_RetryExhaustion ==
    /\ retry.invocations <= 1 + retry.maxRetries
    /\ Len(retry.outcomes) <= retry.invocations
    /\ (/\ retry.pc = "thrown"
        /\ \A i \in 1..Len(retry.outcomes) :
              IsRejection(retry.outcomes[i]) /\ Retryable(retry.outcomes[i].error))
       => /\ retry.invocations = 1 + retry.maxRetries
          /\ Len(retry.outcomes) = 1 + retry.maxRetries
          /\ retry.error = retry.outcomes[Len(retry.outcomes)].error
          /\ retry.error.oid = 1 + retry.maxRetries

C4_Witness ==
    /\ retry.pc = "thrown"
    /\ retry.maxRetries = DefaultMaxRetries
    /\ retry.invocations = 4
    /\ AllRejectedWith(retry.outcomes, Lower({"network"}))
    /\ retry.error = Err(Lower({"network"}), 4)

(* C5 -- the error of every attempt is classified anew: the first attempt  *)
(* that rejects with a non-retryable error is the last one, whatever       *)
(* preceded it and however many retries remain, and retryDelete rejects    *)
(* with exactly that error.                                                *)
C5_StopsAtNonRetryable ==
    \A i \in 1..Len(retry.outcomes) :
        (IsRejection(retry.outcomes[i]) /\ ~Retryable(retry.outcomes[i].error))
        => /\ i = Len(retry.outcomes)
           /\ retry.pc = "thrown"
           /\ retry.invocations = i
           /\ retry.error = retry.outcomes[i].error

C5_Witness ==
    /\ retry.maxRetries = DefaultMaxRetries
    /\ Len(retry.outcomes) = 2
    /\ retry.outcomes[1] = Rejected(Err(Lower({"network"}), 1))
    /\ retry.outcomes[2] = Rejected(Err(Lower({"permission"}), 2))
    /\ retry.pc = "thrown"
    /\ retry.invocations = 2

(* C6 -- retryDelete stops at the first attempt that resolves: after k     *)
(* retryable rejections (k <= maxRetries) and a resolution the delete      *)
(* operation has been invoked exactly k + 1 times and retryDelete returns  *)
(* the resolved value itself, truthy or falsy.                             *)
C6_StopsAtFirstResolve ==
    /\ \A i \in 1..Len(retry.outcomes) :
          IsResolution(retry.outcomes[i])
          => /\ i = Len(retry.outcomes)
             /\ retry.pc = "returned"
             /\ retry.invocations = i
             /\ i <= retry.maxRetries + 1
             /\ retry.result = retry.outcomes[i].value
             /\ \A j \in 1..(i - 1) : IsRejection(retry.outcomes[j])
                                       /\ Retryable(retry.outcomes[j].error)
    /\ retry.pc = "returned" =>
          /\ retry.outcomes # <<>>
          /\ IsResolution(retry.outcomes[Len(retry.outcomes)])

C6_Witness ==
    /\ retry.pc = "returned"
    /\ Len(retry.outcomes) = 3
    /\ retry.invocations = 3
    /\ retry.result = "null"
    /\ IsRejection(retry.outcomes[1]) /\ IsRejection(retry.outcomes[2])

\* rejections of the given categories are never followed by a wait or another attempt
SurfacedImmediately(categories) ==
    \A i \in 1..Len(retry.outcomes) :
        (IsRejection(retry.outcomes[i])
            /\ getErrorType(retry.outcomes[i].error) \in categories)
        => /\ i = Len(retry.outcomes)
           /\ retry.pc = "thrown"
           /\ retry.invocations = i
           /\ Len(retry.waits) = i - 1
           /\ retry.error = retry.outcomes[i].error

\* rejections of the given categories are retried while attempts remain
RetriedWhileAttemptsRemain(categories) ==
    \A i \in 1..Len(retry.outcomes) :
        (IsRejection(retry.outcomes[i])
            /\ getErrorType(retry.outcomes[i].error) \in categories
            /\ i <= retry.maxRetries)
        => Len(retry.waits) >= i

(* C7 as stated -- only network and timeout errors are retried; permission,*)
(* not_found, conflict and default errors are surfaced immediately.        *)
C7_Original ==
    /\ SurfacedImmediately({"permission", "not_found", "conflict", "default"})
    /\ RetriedWhileAttemptsRemain({"network", "timeout"})

(* C7 -- errors classified network, timeout or default are retried up to   *)
(* the bound; errors classified permission, not_found or conflict are      *)
(* surfaced immediately: no backoff wait and no further invocation follows *)
(* them and they are propagated unchanged.                                 *)
C7_PropagationPolicy ==
    /\ SurfacedImmediately({"permission", "not_found", "conflict"})
    /\ RetriedWhileAttemptsRemain({"network", "timeout", "default"})

C7_Witness ==
    /\ Len(retry.outcomes) = 2
    /\ getErrorType(retry.outcomes[1].error) = "default"
    /\ getErrorType(retry.outcomes[2].error) = "conflict"
    /\ retry.pc = "thrown"
    /\ retry.waits = <<TestBaseDelay>>

(* C8 -- backoff schedule: the n-th wait is baseDelay * 2^(n-1); there is  *)
(* one wait between consecutive attempts, none before the first attempt    *)
(* and none after the last failed one; the clock advances by exactly the   *)
(* waits; an exhausted run has waited baseDelay * (2^maxRetries - 1) in    *)
(* total, 1000 + 2000 + 4000 ms with the defaults.                         *)
C8_BackoffSchedule ==
    /\ \A n \in 1..Len(retry.waits) : retry.waits[n] = retry.baseDelay * (2 ^ (n - 1))
    /\ Len(retry.waits) <= retry.maxRetries
    /\ retry.pc = "idle" => retry.waits = <<>>
    /\ retry.pc = "await" => Len(retry.waits) = retry.invocations - 1
    /\ retry.pc = "backoff" => Len(retry.waits) = retry.invocations
    /\ retry.pc \in {"returned", "thrown"} => Len(retry.waits) = Len(retry.outcomes) - 1
    /\ retry.pc # "backoff" => now = SumSeq(retry.waits)
    /\ retry.pc = "backoff" => retry.deadline = SumSeq(retry.waits)
    /\ (retry.pc = "thrown" /\ retry.invocations = 1 + retry.maxRetries)
       => SumSeq(retry.waits) = retry.baseDelay * ((2 ^ retry.maxRetries) - 1)
    /\ (retry.pc = "thrown" /\ retry.invocations = 4
            /\ retry.maxRetries = 3 /\ retry.baseDelay = 1000)
       => retry.waits = <<1000, 2000, 4000>>

C8_Witness ==
    /\ retry.pc = "thrown"
    /\ retry.maxRetries = 3
    /\ retry.baseDelay = 1000
    /\ retry.waits = <<1000, 2000, 4000>>
    /\ now = 7000

----------------------------------------------------------------------------
(* Properties of executeDelete                                             *)

TotalLogged(ev) == Count(calls[1].log, ev) + Count(calls[2].log, ev)

Occurrences(coll, id) == Cardinality({i \in 1..Len(coll) : coll[i].id = id})

NotPending(id) == ~MapHas(deletedProjects, id) /\ ~MapHas(rollbackCallbacks, id)

\* the guidance the table of section 4.2 gives for an error and a label
ExpectedGuidance(error, title) ==
    LET cat == getErrorType(error) IN
    [message |-> IF cat = "default" THEN <<"default", title>> ELSE <<cat>>,
     action |-> CASE cat \in {"network", "timeout"} -> "retry"
                  [] cat = "permission" -> "reauth"
                  [] cat \in {"not_found", "conflict"} -> "refresh"
                  [] OTHER -> "none",
     severity |-> CASE cat \in {"network", "timeout", "conflict"} -> "warning"
                    [] cat = "not_found" -> "info"
                    [] OTHER -> "error",
     retryable |-> cat \in {"network", "timeout", "default"}]

\* everything the failure path does for error, except the value returned
FailureEffects(c, error) ==
    LET call == calls[c] IN
    /\ Occurrences(projects, call.id) = 1
    /\ OptimisticActive(c) => /\ Count(call.log, "remove") = 1
                              /\ Count(call.log, "reinsert") = 1
                              /\ NotPending(call.id)
    /\ getDeleteError(call.id) = ExpectedGuidance(error, SnapshotTitle(c))
    /\ Count(call.log, "recordFailure") = 1
    /\ Count(call.log, "recordSuccess") = 0
    /\ stats.failedDeletes = TotalLogged("recordFailure")
    /\ stats.totalDeletes = TotalLogged("recordFailure") + TotalLogged("recordSuccess")
    /\ MapHas(stats.errorTypes, getErrorType(error))
    /\ cfg.onError # "absent" =>
          call.onErrorArgs = <<[id |-> call.id, error |-> error,
                                errorInfo |-> ExpectedGuidance(error, SnapshotTitle(c))]>>
    /\ cfg.onError = "absent" => call.onErrorArgs = <<>>
    /\ call.onSuccessArgs = <<>>

\* false, or the exception of a throwing onError
ReturnsFalseUnlessOnErrorThrows(c) ==
    IF cfg.onError = "throws"
    THEN calls[c].ret = "throws" /\ calls[c].thrown = OnErrorException
    ELSE calls[c].ret = "false"

(* C1 as stated -- when the delete operation finally rejects, the call     *)
(* rolls back, stores the guidance, records one failure, invokes onError   *)
(* once, never onSuccess, and returns false.                               *)
C1_Original ==
    \A c \in Calls :
        FinallyRejected(c)
        => /\ FailureEffects(c, calls[c].run.error)
           /\ calls[c].ret = "false"

(* C1 -- failure path: when the delete operation's final outcome is a      *)
(* rejection, executeDelete has rolled the optimistic removal back (the    *)
(* entity is in the collection once, nothing is pending), stored the       *)
(* guidance of that error and the snapshot's title as getDeleteError(id),  *)
(* recorded one failure statistic, invoked onError exactly once with       *)
(* (id, error, guidance) and never onSuccess; it returns false, except     *)
(* that it rejects with onError's exception when onError itself throws.    *)
C1_FailurePath ==
    \A c \in Calls :
        FinallyRejected(c)
        => /\ FailureEffects(c, calls[c].run.error)
           /\ ReturnsFalseUnlessOnErrorThrows(c)

C1_Witness ==
    /\ FinallyRejected(1)
    /\ OptimisticActive(1)
    /\ calls[1].run.invocations = 3
    /\ getErrorType(calls[1].run.error) = "permission"
    /\ Count(calls[1].log, "reinsert") = 1
    /\ cfg.onError = "throws"
    /\ calls[1].ret = "throws"

(* C2 -- success path: when the delete operation finally resolves truthy,  *)
(* executeDelete has confirmed the optimistic delete (nothing pending, the *)
(* entity stays absent), recorded one success statistic and no failure,    *)
(* invoked onSuccess exactly once with (id, snapshot), never onError,      *)
(* never the reinsertion callback, and returns true.                       *)
C2_SuccessPath ==
    \A c \in Calls :
        (FinallyResolved(c) /\ calls[c].run.result = "true")
        => LET call == calls[c] IN
           /\ NotPending(call.id)
           /\ OptimisticActive(c) => Occurrences(projects, call.id) = 0
           /\ Count(call.log, "recordSuccess") = 1
           /\ Count(call.log, "recordFailure") = 0
           /\ Count(call.log, "reinsert") = 0
           /\ cfg.onSuccess # "absent" =>
                 call.onSuccessArgs = <<[id |-> call.id, hasData |-> call.hasData,
                                         data |-> call.data]>>
           /\ call.onErrorArgs = <<>>
           /\ call.ret = "true"

(* C3 -- whenever an executeDelete call has settled (true, false or an     *)
(* exception), the deleting mark it set at its start has been cleared;     *)
(* while the call is in flight the mark is set.                            *)
C3_DeletingCleared ==
    \A c \in Calls :
        /\ Settled(c) => /\ calls[c].ret \in {"true", "false", "throws"}
                         /\ MapHas(deletingStates, calls[c].id)
                         /\ ~isDeleting(calls[c].id)
        /\ calls[c].pc \in {"await", "backoff"} => isDeleting(calls[c].id)

C3_Witness ==
    /\ Settled(1)
    /\ calls[1].ret = "throws"
    /\ cfg.onSuccess = "throws"
    /\ Count(calls[1].log, "onSuccess") = 1
    /\ ~isDeleting(calls[1].id)

\* the call ended with a falsy resolution of the delete operation
FinallyFalsy(c) == FinallyResolved(c) /\ calls[c].run.result \in {"false", "null"}

\* a resolution is the last invocation, and a first-attempt one the only invocation
NotRetriedAfterResolution(c) ==
    /\ calls[c].run.invocations = Len(calls[c].run.outcomes)
    /\ Count(calls[c].log, "invoke") = calls[c].run.invocations
    /\ Len(calls[c].run.waits) = calls[c].run.invocations - 1

(* C9 as stated -- a falsy result is never retried and is treated as a     *)
(* failure of category default, and executeDelete returns false.           *)
C9_Original ==
    \A c \in Calls :
        FinallyFalsy(c)
        => /\ NotRetriedAfterResolution(c)
           /\ FailureEffects(c, GenericFailure)
           /\ stats.errorTypes["default"] = 1
           /\ calls[c].ret = "false"

(* C9 -- a falsy result (no exception) is never retried: no invocation and *)
(* no wait follows it; executeDelete treats it as a failure: it rolls      *)
(* back, stores the default guidance with the snapshot's title, records    *)
(* one failure under 'default' and invokes onError once; it returns false, *)
(* except that it rejects with onError's exception when onError throws.    *)
C9_FalsyResult ==
    \A c \in Calls :
        FinallyFalsy(c)
        => /\ NotRetriedAfterResolution(c)
           /\ FailureEffects(c, GenericFailure)
           /\ stats.errorTypes["default"] = 1
           /\ ReturnsFalseUnlessOnErrorThrows(c)

C9_Witness ==
    /\ FinallyFalsy(1)
    /\ cfg.enableRetry /\ cfg.maxRetries = DefaultMaxRetries
    /\ calls[1].run.invocations = 1
    /\ calls[1].run.result = "null"
    /\ OptimisticActive(1)
    /\ Count(calls[1].log, "reinsert") = 1
    /\ calls[1].ret = "false"
    /\ getDeleteError(calls[1].id).message = <<"default", TitleOf(calls[1].id)>>

\* the end-to-end scenario of section 8 and its prefixes
NetworkTimeout == Lower({"network", "timeout"})

InScenario(c) ==
    /\ calls[c].pc # "idle"
    /\ OptimisticActive(c)
    /\ cfg.enableRetry /\ cfg.maxRetries = DefaultMaxRetries
    /\ LET o == calls[c].run.outcomes IN
       \/ Len(o) <= 3 /\ AllRejectedWith(o, NetworkTimeout)
       \/ /\ Len(o) = 4
          /\ AllRejectedWith(SubSeq(o, 1, 3), NetworkTimeout)
          /\ o[4] = Resolved("true")

(* C10 -- end-to-end: with the defaults, a delete operation that rejects   *)
(* with 'network timeout' three times and then resolves true: the removal  *)
(* callback is invoked exactly once and before the first invocation of the *)
(* delete operation, the entity stays absent and no reinsertion is ever    *)
(* invoked, the call keeps retrying through the three rejections, the      *)
(* delete operation is invoked exactly 4 times and onSuccess exactly once  *)
(* with (id, snapshot).                                                    *)
C10_EndToEnd ==
    \A c \in Calls :
        InScenario(c)
        => LET call == calls[c] IN
           /\ Count(call.log, "remove") = 1
           /\ FirstIndex(call.log, "remove") < FirstIndex(call.log, "invoke")
           /\ Count(call.log, "reinsert") = 0
           /\ Occurrences(projects, call.id) = 0
           /\ Len(call.run.outcomes) < 4 =>
                 /\ call.pc \in {"await", "backoff"}
                 /\ call.onSuccessArgs = <<>>
           /\ Len(call.run.outcomes) = 4 =>
                 /\ Settled(c)
                 /\ call.run.invocations = 4
                 /\ Count(call.log, "invoke") = 4
                 /\ cfg.onSuccess # "absent" =>
                       call.onSuccessArgs = <<[id |-> call.id, hasData |-> TRUE,
                                               data |-> Entity(call.id)]>>

C10_Witness ==
    /\ InScenario(1)
    /\ Settled(1)
    /\ calls[1].id = "p1"
    /\ calls[1].data.title = "Roof Repair"
    /\ calls[1].run.invocations = 4
    /\ calls[1].run.waits = <<1000, 2000, 4000>>
    /\ cfg.onSuccess = "returns"
    /\ calls[1].ret = "true"
    /\ Len(calls[1].onSuccessArgs) = 1

\* the call returned true
ReturnedTrue(c) == Settled(c) /\ calls[c].ret = "true"

CaughtError(call) ==
    IF call.run.pc = "thrown" THEN call.run.error
    ELSE IF call.run.result = "true" THEN OnSuccessException
    ELSE GenericFailure

\* the counter of a category; a category never counted has no entry
CategoryCount(st, category) ==
    IF MapHas(st.errorTypes, category) THEN st.errorTypes[category] ELSE 0

\* the step in which call c returns false
ReturnsFalse(c) == ~Settled(c) /\ Settled(c)' /\ calls[c].ret' = "false"

(* C12 -- no terminal failure is silently dropped: in the step in which an *)
(* executeDelete call returns false, getDeleteError(id) has become the     *)
(* guidance record of the final error, failedDeletes has grown by one and  *)
(* so has the counter of the final error's category.                       *)
C12_NoSilentDrop ==
    [][\A c \in Calls :
          ReturnsFalse(c)
          => LET call == calls[c]'
                 error == CaughtError(call)
                 category == getErrorType(error)
             IN /\ MapGet(deleteErrors', call.id) = ExpectedGuidance(error, SnapshotTitle(c)')
                /\ MapGet(deleteErrors', call.id).message # <<>>
                /\ stats'.failedDeletes = stats.failedDeletes + 1
                /\ CategoryCount(stats', category) = CategoryCount(stats, category) + 1
                /\ \A other \in Categories \ {category} :
                      CategoryCount(stats', other) = CategoryCount(stats, other)]_vars

C12_Witness ==
    /\ Settled(1) /\ Settled(2)
    /\ calls[1].ret = "false" /\ calls[2].ret = "false"
    /\ calls[1].run.pc = "thrown" /\ calls[2].run.pc = "thrown"
    /\ getErrorType(calls[1].run.error) = "permission"
    /\ getErrorType(calls[2].run.error) = "permission"
    /\ stats.failedDeletes = 2
    /\ stats.errorTypes["permission"] = 2
    /\ getDeleteError(calls[1].id).action = "reauth"
    /\ getDeleteError(calls[2].id).action = "reauth"

\* the call is between its start and its return
InFlight(c) == calls[c].pc \in {"await", "backoff"}

\* the delete operation of the call resolved with a truthy value
DeleteSucceeded(c) == FinallyResolved(c) /\ calls[c].run.result = "true"

\* what a call on its own returns, given the outcome of its delete operation
SequentialReturn(c) ==
    IF DeleteSucceeded(c) /\ cfg.onSuccess # "throws" THEN "true"
    ELSE IF cfg.onError = "throws" THEN "throws"
    ELSE "false"

\* what a call on its own leaves as the error of its id
SequentialError(c) ==
    IF DeleteSucceeded(c) /\ cfg.onSuccess # "throws" THEN Null
    ELSE ExpectedGuidance(CaughtError(calls[c]), SnapshotTitle(c))

\* the collection without the entities the given calls are about
Without(coll, cs) ==
    SelectSeq(coll, LAMBDA e : \A c \in cs : calls[c].id # e.id)

(* C13 -- concurrent executeDelete calls on distinct ids do not interfere: *)
(* under every interleaving each call's return value, its id's deleting    *)
(* flag and error and its pending record are what the call gives when it   *)
(* runs alone, a function of its own arguments and of the outcomes of its  *)
(* own delete operation; the collection is the initial one without the     *)
(* entities optimistically removed by the calls in flight and without      *)
(* those whose delete operation succeeded, so that once all calls have     *)
(* settled it holds exactly the initial entities minus the deleted ones.   *)
C13_NoInterference ==
    /\ \A c \in Calls :
          /\ InFlight(c) =>
                /\ isDeleting(calls[c].id)
                /\ getDeleteError(calls[c].id) = Null
                /\ OptimisticActive(c) =>
                      /\ MapGet(deletedProjects, calls[c].id) = calls[c].data
                      /\ MapGet(rollbackCallbacks, calls[c].id) = Callback(c)
                /\ ~OptimisticActive(c) => NotPending(calls[c].id)
          /\ Settled(c) =>
                /\ calls[c].ret = SequentialReturn(c)
                /\ ~isDeleting(calls[c].id)
                /\ getDeleteError(calls[c].id) = SequentialError(c)
                /\ NotPending(calls[c].id)
    /\ projects = Without(InitialProjects,
                     {c \in Calls : OptimisticActive(c) /\ (InFlight(c) \/ DeleteSucceeded(c))})
    /\ \A id \in Ids : (\A c \in Calls : calls[c].id # id) => NotPending(id)

C13_Witness ==
    /\ Settled(1) /\ Settled(2)
    /\ calls[1].id = "p2" /\ calls[2].id = "p1"
    /\ DeleteSucceeded(1) /\ calls[1].run.invocations = 2
    /\ FinallyRejected(2) /\ calls[2].run.invocations = 2
    /\ FirstIndex(calls[2].log, "reinsert") > 0
    /\ calls[1].ret = "true" /\ calls[2].ret = "false"
    /\ projects = <<Entity("p1")>>
    /\ getDeleteError("p2") = Null
    /\ getDeleteError("p1").action = "reauth"

----------------------------------------------------------------------------
(* Properties of OptimisticDeleteManager                                   *)

\* id has a pending record
Pending(id) == MapHas(deletedProjects, id) /\ MapHas(rollbackCallbacks, id)

\* how often the update callback of caller c was invoked, by kind of transformation
Removals(c) == Count(calls[c].log, "remove")
Reinsertions(c) == Count(calls[c].log, "reinsert")

\* no update callback is invoked in the step, except for extra removals and
\* reinsertions of caller k
NoInvocationBut(k, removals, reinsertions) ==
    \A c \in Calls :
        /\ Removals(c)' = Removals(c) + (IF c = k THEN removals ELSE 0)
        /\ Reinsertions(c)' = Reinsertions(c) + (IF c = k THEN reinsertions ELSE 0)

NothingChanged == UNCHANGED <<projects, deletedProjects, rollbackCallbacks>>

(* C14 -- update-callback accounting: optimisticDelete invokes the given   *)
(* callback exactly once, with the removal, and makes id pending;          *)
(* rollbackDelete of a pending id invokes the stored callback exactly once *)
(* more, with the reinsertion, and leaves id not pending; confirmDelete    *)
(* invokes no callback and leaves id not pending; rollbackDelete and       *)
(* confirmDelete of an id that is not pending invoke nothing and change    *)
(* nothing.                                                                *)
C14_CallbackAccounting ==
    [][\A c \in Calls, id \in Ids :
          /\ OptDelete(c, id) =>
                /\ NoInvocationBut(c, 1, 0)
                /\ Pending(id)'
                /\ projects' = RemoveTransform(projects, id)
          /\ (OptRollback(c, id) /\ Pending(id)) =>
                /\ NoInvocationBut(rollbackCallbacks[id].callback, 0, 1)
                /\ NotPending(id)'
          /\ OptConfirm(c, id) =>
                /\ NoInvocationBut(c, 0, 0)
                /\ NotPending(id)'
                /\ projects' = projects
          /\ ((OptRollback(c, id) \/ OptConfirm(c, id)) /\ ~Pending(id)) =>
                /\ NoInvocationBut(c, 0, 0)
                /\ NothingChanged]_vars

\* optimisticDelete by caller 1, then rollbackDelete by caller 2: two invocations
C14_Witness ==
    /\ calls[1].log = <<"remove", "reinsert">>
    /\ calls[2].log = <<"rollbackDelete", "rollbackDelete">>
    /\ NotPending("p1") /\ NotPending("p2")
    /\ projects = InitialProjects

\* the snapshot map and the callback map have the same ids
KeysInSync == DOMAIN deletedProjects = DOMAIN rollbackCallbacks

(* C15 -- after any sequence of optimisticDelete, confirmDelete,           *)
(* rollbackDelete and clearAll the snapshot map and the rollback-callback  *)
(* map have exactly the same set of ids, and there is at most one pending  *)
(* record per id: an optimisticDelete of a pending id replaces its record  *)
(* and adds none.                                                          *)
C15_MapsInSync ==
    /\ []KeysInSync
    /\ [](\A id \in DOMAIN deletedProjects : deletedProjects[id] = Entity(id))
    /\ [][\A c \in Calls, id \in Ids :
             OptDelete(c, id) =>
                /\ DOMAIN deletedProjects' = DOMAIN deletedProjects \cup {id}
                /\ rollbackCallbacks'[id] = Callback(c)
                /\ \A other \in DOMAIN rollbackCallbacks \ {id} :
                      rollbackCallbacks'[other] = rollbackCallbacks[other]]_vars

\* both callers deleted p1 optimistically: one record
C15_Witness ==
    /\ calls[1].log = <<"remove">>
    /\ calls[2].log = <<"remove">>
    /\ projects = <<Entity("p2")>>
    /\ DOMAIN deletedProjects = {"p1"}
    /\ DOMAIN rollbackCallbacks = {"p1"}

NoDuplicateIds == \A id \in Ids : Occurrences(projects, id) <= 1

(* C16 -- rollback never duplicates: when rollbackDelete(id) runs for a    *)
(* pending id and the collection already holds an entity with that id, the *)
(* collection is left as it is; otherwise the snapshot is added exactly    *)
(* once and nothing else is added or dropped; the collection never has two *)
(* entries with the same id.                                               *)
C16_RollbackNeverDuplicates ==
    /\ []NoDuplicateIds
    /\ [][\A c \in Calls, id \in Ids :
             (OptRollback(c, id) /\ Pending(id)) =>
                IF InCollection(projects, id)
                THEN projects' = projects
                ELSE /\ Occurrences(projects', id) = 1
                     /\ \E i \in 1..Len(projects') : projects'[i] = deletedProjects[id]
                     /\ RemoveTransform(projects', id) = projects]_vars

\* p1 is deleted optimistically, a refresh brings it back, then the rollback runs
C16_Witness ==
    /\ calls[1].log = <<"remove", "refresh", "reinsert">>
    /\ calls[2].log = <<"rollbackDelete">>
    /\ NotPending("p1") /\ NotPending("p2")
    /\ projects = InitialProjects

\* the call was in flight, its entity removed, when the component was unmounted
AbandonedAtTeardown(c) ==
    /\ OptimisticActive(c)
    /\ Count(calls[c].log, "clearAll") = 1

(* C17 -- clearAll, as the hook calls it at teardown, discards every       *)
(* pending record without invoking an update callback and without changing *)
(* the collection; after it rollbackDelete of any id changes nothing; so a *)
(* call whose optimistic delete was in flight at teardown and whose delete *)
(* operation fails afterwards leaves the entity out of the collection: no  *)
(* reinsertion is invoked.                                                 *)
C17_ClearAllAbandons ==
    /\ [][Unmount =>
             /\ deletedProjects' = EmptyMap
             /\ rollbackCallbacks' = EmptyMap
             /\ projects' = projects
             /\ NoInvocationBut(1, 0, 0)
             /\ \A c \in Calls, id \in Ids :
                   rollbackDelete(HookState', c, id) = HookState']_vars
    /\ [](\A c \in Calls :
             (Settled(c) /\ AbandonedAtTeardown(c) /\ ~DeleteSucceeded(c))
             => /\ calls[c].ret = "false"
                /\ Removals(c) = 1
                /\ Reinsertions(c) = 0
                /\ Occurrences(projects, calls[c].id) = 0
                /\ NotPending(calls[c].id))

\* both calls were in flight at teardown; one then failed, one succeeded
C17_Witness ==
    /\ ~mounted
    /\ Settled(1) /\ Settled(2)
    /\ AbandonedAtTeardown(1) /\ AbandonedAtTeardown(2)
    /\ FinallyRejected(1) /\ calls[1].ret = "false"
    /\ DeleteSucceeded(2)
    /\ projects = <<>>
    /\ getDeleteError(calls[1].id).action = "reauth"

----------------------------------------------------------------------------
(* Configuration gates of executeDelete                                    *)

Started(c) == calls[c].pc # "idle"

(* C18 -- configuration gates: when optimistic updates are disabled, or    *)
(* the snapshot or the update callback is missing, a single executeDelete  *)
(* call never invokes the update callback, stores no pending record and    *)
(* leaves the collection as it was, on the success and on the failure      *)
(* path; when retries are disabled the delete operation is invoked exactly *)
(* once per call, whatever error it raises, and no backoff wait is made.   *)
C18_ConfigurationGates ==
    \A c \in Calls :
        Started(c) =>
            /\ ~(cfg.enableOptimisticUpdates /\ calls[c].hasData /\ calls[c].hasCb) =>
                  /\ Count(calls[c].log, "remove") = 0
                  /\ Count(calls[c].log, "reinsert") = 0
                  /\ projects = InitialProjects
                  /\ deletedProjects = EmptyMap
                  /\ rollbackCallbacks = EmptyMap
            /\ ~cfg.enableRetry =>
                  /\ Count(calls[c].log, "invoke") = 1
                  /\ calls[c].run.invocations = 1
                  /\ calls[c].run.waits = <<>>
                  /\ calls[c].pc # "backoff"
                  /\ Settled(c) => Len(calls[c].run.outcomes) = 1

\* a retryable rejection with retries and optimistic updates disabled
C18_Witness ==
    /\ Settled(1)
    /\ ~cfg.enableRetry /\ cfg.maxRetries = DefaultMaxRetries
    /\ ~cfg.enableOptimisticUpdates
    /\ calls[1].hasData /\ calls[1].hasCb
    /\ FinallyRejected(1)
    /\ calls[1].run.error.message = NetworkTimeout
    /\ Count(calls[1].log, "invoke") = 1
    /\ calls[1].ret = "false"
    /\ projects = InitialProjects

----------------------------------------------------------------------------
(* Properties of DeleteStatsManager                                        *)

\* the operations made since construction or the last resetStats()
RECURSIVE SinceReset(_)
SinceReset(log) ==
    IF log = <<>> THEN <<>>
    ELSE IF log[Len(log)] = "resetStats" THEN <<>>
    ELSE Append(SinceReset(SubSeq(log, 1, Len(log) - 1)), log[Len(log)])

RecordedSuccesses == Count(SinceReset(calls[1].log), "recordSuccess")
RecordedFailures == Count(SinceReset(calls[1].log), "recordFailure")

\* the errors of the failures recorded since construction or the last reset
RecordedErrors == LastN(calls[1].onErrorArgs, RecordedFailures)

RECURSIVE SumOver(_, _)
SumOver(f, S) ==
    IF S = {} THEN 0
    ELSE LET x == CHOOSE x \in S : TRUE IN f[x] + SumOver(f, S \ {x})

(* C19 -- after any sequence of recordSuccess and recordFailure calls      *)
(* since construction or the last reset, totalDeletes is the number of     *)
(* calls, successfulDeletes the number of recordSuccess calls,             *)
(* failedDeletes the number of recordFailure calls, and errorTypes[c] the  *)
(* number of recorded failures whose error classifies as c: a category     *)
(* without failures has no entry and the entries sum to failedDeletes.     *)
C19_Counters ==
    /\ stats.totalDeletes = RecordedSuccesses + RecordedFailures
    /\ stats.successfulDeletes = RecordedSuccesses
    /\ stats.failedDeletes = RecordedFailures
    /\ stats.totalDeletes = stats.successfulDeletes + stats.failedDeletes
    /\ \A category \in Categories :
          LET n == Cardinality({i \in 1..Len(RecordedErrors) :
                                  getErrorType(RecordedErrors[i]) = category})
          IN IF n = 0 THEN ~MapHas(stats.errorTypes, category)
             ELSE MapGet(stats.errorTypes, category) = n
    /\ DOMAIN stats.errorTypes \subseteq Categories
    /\ SumOver(stats.errorTypes, DOMAIN stats.errorTypes) = stats.failedDeletes
    /\ getStats(stats).totalDeletes = stats.totalDeletes
    /\ getStats(stats).errorTypes = stats.errorTypes

\* a 'network' failure, a reset, then a success and a 'permission' failure
C19_Witness ==
    /\ calls[1].log = <<"recordFailure", "resetStats", "recordSuccess", "recordFailure">>
    /\ getErrorType(calls[1].onErrorArgs[1]) = "network"
    /\ getErrorType(calls[1].onErrorArgs[2]) = "permission"
    /\ stats.totalDeletes = 2
    /\ stats.successfulDeletes = 1
    /\ stats.failedDeletes = 1
    /\ DOMAIN stats.errorTypes = {"permission"}
    /\ stats.errorTypes["permission"] = 1

\* the decimal string with one decimal of n tenths
Tenths(n) == ToString(n \div 10) \o "." \o ToString(n % 10)

\* n tenths is a closest number of tenths to the percentage of successes
ClosestTenths(n) ==
    /\ 2 * n * stats.totalDeletes <= 2000 * stats.successfulDeletes + stats.totalDeletes
    /\ 2000 * stats.successfulDeletes - stats.totalDeletes <= 2 * n * stats.totalDeletes

(* C20 -- getStats().successRate is the number 0 when totalDeletes is 0,   *)
(* and otherwise a string: successfulDeletes / totalDeletes * 100 rounded  *)
(* to one decimal, between "0.0" and "100.0"; "100.0" for 1 of 1, "0.0"    *)
(* for 0 of 1, "66.7" for 2 of 3.                                          *)
C20_SuccessRate ==
    LET rate == getStats(stats).successRate IN
    /\ stats.totalDeletes = 0 => rate = Number(0)
    /\ stats.totalDeletes > 0 =>
          /\ rate # Number(0)
          /\ \E n \in 0..1000 : ClosestTenths(n) /\ rate = String(Tenths(n))
    /\ (stats.successfulDeletes = 1 /\ stats.totalDeletes = 1) => rate = String("100.0")
    /\ (stats.successfulDeletes = 0 /\ stats.totalDeletes = 1) => rate = String("0.0")
    /\ (stats.successfulDeletes = 2 /\ stats.totalDeletes = 3) => rate = String("66.7")
    /\ (stats.successfulDeletes = 1 /\ stats.totalDeletes = 3) => rate = String("33.3")

C20_Witness ==
    /\ calls[1].log = <<"recordSuccess", "recordFailure", "recordSuccess">>
    /\ stats.successfulDeletes = 2
    /\ stats.totalDeletes = 3
    /\ getStats(stats).successRate = String("66.7")

----------------------------------------------------------------------------
(* Properties of resetStats and of the sliding average                     *)

\* the last operation made on the stand-alone manager
LastOperation == IF calls[1].log = <<>> THEN "none" ELSE calls[1].log[Len(calls[1].log)]

\* this step is the operation op on the stand-alone manager
Operation(op) == calls[1].log' = Append(calls[1].log, op)

(* C21 -- after resetStats(), whatever was recorded before, getStats()     *)
(* reports totalDeletes = successfulDeletes = failedDeletes = 0,           *)
(* successRate 0 (the number), an empty category map, an empty sample      *)
(* history and averageResponseTime 0; the record made next is counted      *)
(* from zero: it is the only one in the counters, in the category map and  *)
(* in the sample history.                                                  *)
C21_ResetStats ==
    /\ [](LastOperation = "resetStats" =>
             LET s == getStats(stats) IN
             /\ s.totalDeletes = 0 /\ s.successfulDeletes = 0 /\ s.failedDeletes = 0
             /\ s.successRate = Number(0)
             /\ s.errorTypes = EmptyMap
             /\ s.responseTimes = <<>>
             /\ s.averageResponseTime.num = 0)
    /\ [][LastOperation = "resetStats" =>
             /\ Operation("recordSuccess") =>
                   /\ stats'.totalDeletes = 1 /\ stats'.successfulDeletes = 1
                   /\ stats'.failedDeletes = 0
                   /\ stats'.errorTypes = EmptyMap
                   /\ stats'.responseTimes = <<now' - now>>
                   /\ stats'.averageResponseTime.num
                         = (now' - now) * stats'.averageResponseTime.den
             /\ Operation("recordFailure") =>
                   /\ stats'.totalDeletes = 1 /\ stats'.successfulDeletes = 0
                   /\ stats'.failedDeletes = 1
                   /\ \E category \in Categories :
                         stats'.errorTypes = MapSet(EmptyMap, category, 1)
                   /\ stats'.responseTimes = <<now' - now>>
                   /\ stats'.averageResponseTime.num
                         = (now' - now) * stats'.averageResponseTime.den]_vars

\* a failure and a success were recorded, then the statistics reset
C21_Witness ==
    /\ calls[1].log = <<"recordFailure", "recordSuccess", "resetStats">>
    /\ getStats(stats).totalDeletes = 0
    /\ getStats(stats).successRate = Number(0)
    /\ getStats(stats).responseTimes = <<>>

\* s[lo] + ... + s[hi]
RECURSIVE SumRange(_, _, _)
SumRange(s, lo, hi) == IF lo > hi THEN 0 ELSE s[hi] + SumRange(s, lo, hi - 1)

(* C22 -- each recordSuccess and recordFailure appends its elapsed time    *)
(* to the sample history, and afterwards averageResponseTime is the        *)
(* arithmetic mean of the most recent min(n, 100) of the n samples, so a   *)
(* sample older than the last 100 no longer influences the average.        *)
C22_SlidingAverage ==
    [][Operation("recordSuccess") \/ Operation("recordFailure") =>
          LET times == stats'.responseTimes
              n == Len(times)
              k == IF n < 100 THEN n ELSE 100
              average == stats'.averageResponseTime
          IN /\ times = Append(stats.responseTimes, now' - now)
             /\ average.den > 0
             /\ average.num * k = SumRange(times, n - k + 1, n) * average.den]_vars

\* 101 samples, the slow first one no longer in the average of 100 ms
C22_Witness ==
    /\ Len(stats.responseTimes) = 101
    /\ stats.responseTimes[1] = SlowElapsed
    /\ \A i \in 2..101 : stats.responseTimes[i] = UsualElapsed
    /\ stats.averageResponseTime.num = UsualElapsed * stats.averageResponseTime.den

----------------------------------------------------------------------------
(* Properties of MemoryLeakDetector                                        *)

\* the count of a tag in a tracking status; a tag without entry counts 0
CountIn(status, type) == IF MapHas(status, type) THEN status[type] ELSE 0

\* this step is the operation op on the stand-alone detector
LeakStep(op) ==
    /\ Len(calls[1].log') = Len(calls[1].log) + 1
    /\ calls[1].log'[Len(calls[1].log')].op = op

\* the object of the operation of this step
LeakStepObject == calls[1].log'[Len(calls[1].log')].obj

(* C23 -- tracking an object under a tag and then untracking that same     *)
(* object returns the tag's count to the value it had before the track;    *)
(* untrackObject of an object that is not tracked changes no count; no     *)
(* count is ever negative.                                                 *)
C23_RoundTrip ==
    /\ [](/\ \A type \in DOMAIN counters : counters[type] >= 0
          /\ \A i \in 2..Len(calls[1].log) :
                LET track == calls[1].log[i - 1]
                    untrack == calls[1].log[i]
                IN (/\ track.op = "trackObject"
                    /\ untrack.op = "untrackObject"
                    /\ untrack.obj = track.obj)
                   => CountIn(untrack.after, track.type) = CountIn(track.before, track.type))
    /\ [][(LeakStep("untrackObject") /\ ~MapHas(references, LeakStepObject))
             => (counters' = counters /\ references' = references)]_vars

\* an object is tracked as the 100th of its tag and untracked again
C23_Witness ==
    /\ Len(calls[1].log) = 2
    /\ calls[1].log[1].op = "trackObject"
    /\ calls[1].log[1].type = TestTag
    /\ calls[1].log[2].op = "untrackObject"
    /\ calls[1].log[2].obj = calls[1].log[1].obj
    /\ CountIn(calls[1].log[1].before, TestTag) = PreTracked
    /\ CountIn(calls[1].log[1].after, TestTag) = PreTracked + 1
    /\ CountIn(counters, TestTag) = PreTracked

C25_AtMostOneTimer ==
    /\ Cardinality(timers) <= 1
    /\ checkInterval = Null => timers = {}

----------------------------------------------------------------------------
(* Properties of PerformanceMonitor                                        *)

\* the position of the last clearMetrics() among the operations made, or 0
LastClear ==
    LET clears == {i \in 1..Len(calls[1].log) : calls[1].log[i].op = "clearMetrics"}
    IN IF clears = {} THEN 0 ELSE CHOOSE i \in clears : \A j \in clears : j <= i

\* the endOperation calls made for the operation started at position i
EndsOf(i) ==
    {j \in (i + 1)..Len(calls[1].log) :
        /\ calls[1].log[j].op = "endOperation"
        /\ calls[1].log[j].id = calls[1].log[i].id}

\* the operations with this name started since the last clear and ended
Completed(name) ==
    {i \in (LastClear + 1)..Len(calls[1].log) :
        /\ calls[1].log[i].op = "startOperation"
        /\ calls[1].log[i].name = name
        /\ EndsOf(i) # {}}

\* end time minus start time, the end time being that of the last end
DurationOf(i) ==
    LET last == CHOOSE j \in EndsOf(i) : \A k \in EndsOf(i) : k <= j
    IN calls[1].log[last].at - calls[1].log[i].at

RECURSIVE SumOfCompleted(_)
SumOfCompleted(done) ==
    IF done = {} THEN 0
    ELSE LET i == CHOOSE j \in done : TRUE IN DurationOf(i) + SumOfCompleted(done \ {i})

\* the decimal string with two decimals of n hundredths
Hundredths(n) ==
    ToString(n \div 100) \o "." \o (IF n % 100 < 10 THEN "0" ELSE "") \o ToString(n % 100)

\* str is num / den written with two decimals, rounded to a closest hundredth
IsRounded(str, num, den) ==
    \E n \in {(100 * num) \div den, (100 * num) \div den + 1} :
        /\ 2 * n * den <= 200 * num + den
        /\ 200 * num - den <= 2 * n * den
        /\ str = Hundredths(n)

(* C26 -- getOperationStats(name) aggregates exactly the records with      *)
(* that exact name that have been ended (since the last clearMetrics):     *)
(* count is their number and avgDuration, minDuration and maxDuration are  *)
(* the mean, the minimum and the maximum of their durations (end time      *)
(* minus start time), written with two decimals; records not ended and     *)
(* records with other names are excluded; it returns null when there is    *)
(* no such record, in particular after clearMetrics.                       *)
C26_OperationStats ==
    /\ \A name \in PerfNames :
          LET result == getOperationStats(metrics, name)
              done == Completed(name)
              durations == {DurationOf(i) : i \in done}
          IN IF done = {} THEN result = Null
             ELSE /\ result # Null
                  /\ result.operationName = name
                  /\ result.count = Cardinality(done)
                  /\ IsRounded(result.avgDuration, SumOfCompleted(done), Cardinality(done))
                  /\ \E d \in durations :
                        /\ \A e \in durations : d <= e
                        /\ result.minDuration = Hundredths(100 * d)
                  /\ \E d \in durations :
                        /\ \A e \in durations : d >= e
                        /\ result.maxDuration = Hundredths(100 * d)
    /\ LastClear = Len(calls[1].log) =>
          \A name \in PerfNames : getOperationStats(metrics, name) = Null

\* two operations of one name took 100 and 150 ms, a third is still running
\* and one of another name was started
C26_Witness ==
    /\ getOperationStats(metrics, "test-delete") =
          [operationName |-> "test-delete", count |-> 2, avgDuration |-> "125.00",
           minDuration |-> "100.00", maxDuration |-> "150.00"]
    /\ \E id \in DOMAIN metrics : metrics[id].name = "test-delete" /\ ~metrics[id].ended
    /\ \E id \in DOMAIN metrics : metrics[id].name = "test-delete-2"

----------------------------------------------------------------------------
(* Properties of getErrorType                                              *)

\* the token groups in their priority order
TokenGroups ==
    <<[category |-> "network", tokens |-> {"network", "fetch", "connection"}],
      [category |-> "permission", tokens |-> {"permission", "unauthorized", "forbidden"}],
      [category |-> "not_found", tokens |-> {"not found", "404"}],
      [category |-> "timeout", tokens |-> {"timeout"}],
      [category |-> "conflict", tokens |-> {"conflict", "409"}]>>

\* the error classified and the category returned for it
Classified == calls[1].log # <<>>
ClassifiedError == calls[1].thrown
ClassifiedAs == calls[1].log[1]

\* the tokens that occur in the message of the error, in any letter case
TokensIn(error) ==
    IF error.nullish \/ ~error.hasMessage THEN {}
    ELSE {occurrence.tok : occurrence \in error.message}

\* group g has a token occurring in the message of the error
Matches(error, g) == TokenGroups[g].tokens \cap TokensIn(error) # {}

C28_Original ==
    Classified =>
        \A g \in 1..Len(TokenGroups) :
            Matches(ClassifiedError, g) => ClassifiedAs = TokenGroups[g].category

(* C28 -- every message that contains 'network', 'fetch' or 'connection'   *)
(* (in any letter case) classifies as network, whatever other tokens it    *)
(* contains; a message that contains a token of one of the other four      *)
(* categories classifies as that category provided it contains no token    *)
(* of a category earlier in the order network, permission, not_found,      *)
(* timeout, conflict.                                                      *)
C28_TokenMapping ==
    Classified =>
        /\ Matches(ClassifiedError, 1) => ClassifiedAs = "network"
        /\ \A g \in 2..Len(TokenGroups) :
              (/\ Matches(ClassifiedError, g)
               /\ \A h \in 1..(g - 1) : ~Matches(ClassifiedError, h))
              => ClassifiedAs = TokenGroups[g].category

\* 'Connection timeout' is a network error although it contains 'timeout'
C28_Witness ==
    /\ Classified
    /\ ClassifiedError = Err(Upper({"connection"}) \cup Lower({"timeout"}), 0)
    /\ ClassifiedAs = "network"

----------------------------------------------------------------------------
(* Two overlapping executeDelete calls for the same id                     *)

\* call c settles in this step
Settles(c) == ~Settled(c) /\ Settled(c)'

\* calls c and d are two calls for the same id
SameId(c, d) == c # d /\ Started(c) /\ Started(d) /\ calls[c].id = calls[d].id

\* the original statement of C29: once both calls have settled the entity
\* is absent if at least one returned true and present if both returned false
C29_Original ==
    \A c, d \in Calls :
        (SameId(c, d) /\ Settled(c) /\ Settled(d)) =>
            /\ (ReturnedTrue(c) \/ ReturnedTrue(d))
                  => ~InCollection(projects, calls[c].id)
            /\ (calls[c].ret = "false" /\ calls[d].ret = "false")
                  => InCollection(projects, calls[c].id)

(* C29 -- when two executeDelete calls for the same id overlap, both with  *)
(* optimistic updates active, the call that settles first decides: after   *)
(* its step the entity is absent from the collection if its delete         *)
(* operation succeeded and present if it failed, and the call that         *)
(* settles second leaves the collection as it is; so once both have        *)
(* settled the entity is present if both deletes failed, absent if both    *)
(* succeeded, and present although one call returned true when the call    *)
(* that failed settled first.                                              *)
C29_FirstToSettleDecides ==
    /\ [][\A c, d \in Calls :
             (SameId(c, d) /\ OptimisticActive(c) /\ OptimisticActive(d) /\ Settles(c)) =>
                 IF InFlight(d)
                 THEN InCollection(projects', calls[c].id) <=> ~DeleteSucceeded(c)'
                 ELSE projects' = projects]_vars
    /\ [](\A c, d \in Calls :
             (SameId(c, d) /\ OptimisticActive(c) /\ OptimisticActive(d)
                  /\ Settled(c) /\ Settled(d)) =>
                 /\ (~DeleteSucceeded(c) /\ ~DeleteSucceeded(d))
                       => InCollection(projects, calls[c].id)
                 /\ (DeleteSucceeded(c) /\ DeleteSucceeded(d))
                       => ~InCollection(projects, calls[c].id))

\* the first call failed and rolled back, then the second returned true:
\* the entity is deleted remotely and still in the collection
C29_Witness ==
    /\ SameId(1, 2)
    /\ Settled(1) /\ Settled(2)
    /\ calls[1].ret = "false" /\ ~DeleteSucceeded(1)
    /\ Reinsertions(1) + Reinsertions(2) = 1
    /\ ReturnedTrue(2)
    /\ InCollection(projects, calls[1].id)

\* some call for id has started and not settled
InFlightFor(id) == \E c \in Calls : InFlight(c) /\ calls[c].id = id

\* the original statement of C30: isDeleting(id) is true while a call for id
\* is in flight
C30_Original == \A id \in Ids : InFlightFor(id) => isDeleting(id)

(* C30 -- isDeleting(id) becomes true when an executeDelete call for id    *)
(* starts and false when a call for id settles, also while another call    *)
(* for the same id is still in flight, and no other step changes it; so    *)
(* with overlapping calls for id it is true exactly while a call for id    *)
(* has started and none has settled yet (backoff waits included).          *)
C30_FirstToSettleClears ==
    /\ [][\A id \in Ids :
             IF \E c \in Calls : ~Started(c) /\ Started(c)' /\ calls[c].id' = id
             THEN MapGet(deletingStates', id) = TRUE
             ELSE IF \E c \in Calls : Settles(c) /\ calls[c].id = id
             THEN MapGet(deletingStates', id) = FALSE
             ELSE MapGet(deletingStates', id) = MapGet(deletingStates, id)]_vars
    /\ [](\A id \in Ids :
             isDeleting(id) <=>
                (/\ \E c \in Calls : Started(c) /\ calls[c].id = id
                 /\ \A c \in Calls : calls[c].id = id => ~Settled(c)))

\* one call has settled and cleared the mark, the other is still in flight
C30_Witness ==
    /\ SameId(1, 2)
    /\ Settled(1)
    /\ InFlight(2)
    /\ ~isDeleting(calls[2].id)

\* every occurrence of event b in the log s comes after an occurrence of a
Precedes(s, a, b) ==
    \A i \in 1..Len(s) : s[i] = b => \E j \in 1..(i - 1) : s[j] = a

\* the final attempt of the call's delete operation has failed: it rejected
\* and is not retried, or it resolved with a falsy value
FinalAttemptFailed(c) ==
    \/ calls[c].run.pc = "thrown"
    \/ calls[c].run.pc = "returned" /\ ~IsTruthy(calls[c].run.result)

(* C31 -- the order of the steps of one executeDelete run with optimistic  *)
(* updates active.  The removal callback is invoked before the first       *)
(* invocation of the delete operation.  The reinsertion happens only after *)
(* the final attempt has failed: no invocation follows it, and while the   *)
(* run is awaiting an attempt or a backoff timer nothing was reinserted    *)
(* and the entity is absent from the collection.  onSuccess is called only *)
(* after confirmDelete and recordSuccess, onError only after the pending   *)
(* record was confirmed or rolled back and recordFailure was called, and   *)
(* once either was called nothing is pending for the id.                   *)
C31_Ordering ==
    \A c \in Calls :
        (Started(c) /\ OptimisticActive(c)) =>
            LET log == calls[c].log IN
            /\ Precedes(log, "remove", "invoke")
            /\ \A i, j \in 1..Len(log) :
                   (log[i] = "reinsert" /\ log[j] = "invoke") => j < i
            /\ Count(log, "reinsert") > 0 => FinalAttemptFailed(c)
            /\ InFlight(c) => /\ Count(log, "reinsert") = 0
                              /\ ~InCollection(projects, calls[c].id)
            /\ Precedes(log, "confirmDelete", "onSuccess")
            /\ Precedes(log, "recordSuccess", "onSuccess")
            /\ Precedes(log, "recordFailure", "onError")
            /\ \A i \in 1..Len(log) :
                   log[i] = "onError" =>
                       \E j \in 1..(i - 1) : log[j] \in {"reinsert", "confirmDelete"}
            /\ (Count(log, "onSuccess") + Count(log, "onError") > 0)
                   => NotPending(calls[c].id)

\* a run that was retried, failed for good, reinserted and called onError
C31_Witness ==
    /\ Settled(1) /\ OptimisticActive(1)
    /\ calls[1].run.invocations >= 2
    /\ calls[1].log[1] = "remove"
    /\ Count(calls[1].log, "reinsert") = 1
    /\ calls[1].log[Len(calls[1].log)] = "onError"
    /\ InCollection(projects, calls[1].id)

\* the number of times the call has invoked the delete operation
Invocations(c) == Count(calls[c].log, "invoke")

(* C32 -- termination.  When every invocation of the delete operation      *)
(* eventually settles and every backoff timer eventually fires, every      *)
(* executeDelete call that was started eventually settles, with            *)
(* isDeleting(id) false and nothing pending for its id; a call never       *)
(* invokes the delete operation more than 1 + maxRetries times, so no run  *)
(* retries forever.                                                        *)
C32_Termination ==
    /\ \A c \in Calls :
           Started(c) ~> (/\ Settled(c)
                          /\ ~isDeleting(calls[c].id)
                          /\ NotPending(calls[c].id))
    /\ [](\A c \in Calls : Invocations(c) <= 1 + cfg.maxRetries)

\* a call that used all its retries: 1 + maxRetries invocations, then settled
C32_Witness ==
    /\ Settled(1)
    /\ cfg.enableRetry /\ cfg.maxRetries = MaxRetriesBound
    /\ Invocations(1) = 1 + cfg.maxRetries
    /\ Len(calls[1].run.waits) = cfg.maxRetries
    /\ ~isDeleting(calls[1].id)
    /\ NotPending(calls[1].id)

(* C33 -- a delete that resolved with a truthy value is never also         *)
(* processed as a failure: once the call has settled, at most one of       *)
(* recordSuccess / recordFailure and at most one of onSuccess / onError    *)
(* was called for it, no error is stored for its id, and it returned true, *)
(* also when onSuccess throws.                                             *)
C33_SuccessNotFailure ==
    \A c \in Calls :
        DeleteSucceeded(c) =>
            LET log == calls[c].log IN
            /\ Count(log, "recordSuccess") + Count(log, "recordFailure") <= 1
            /\ Count(log, "onSuccess") + Count(log, "onError") <= 1
            /\ getDeleteError(calls[c].id) = Null
            /\ calls[c].ret = "true"

\* a callback of the call has thrown
CallbackThrew(c) ==
    \/ cfg.onSuccess = "throws" /\ Count(calls[c].log, "onSuccess") > 0
    \/ cfg.onError = "throws" /\ Count(calls[c].log, "onError") > 0

\* the outcome of the last invocation of the delete operation by the call
LastOutcome(c) == calls[c].run.outcomes[Len(calls[c].run.outcomes)]

(* C34 -- the statistics count deletes, not attempts.  The step in which   *)
(* an executeDelete call settles without a callback having thrown adds     *)
(* exactly one to totalDeletes and exactly one sample, however many        *)
(* attempts the call made, and when its last attempt rejected, one to the  *)
(* counter of the category of that attempt's error and to no other         *)
(* category; no other step changes the statistics.  Hence, as long as no   *)
(* callback has thrown, totalDeletes is the number of settled calls.       *)
C34_CountsDeletes ==
    /\ [][\A c \in Calls :
             (Settles(c) /\ ~CallbackThrew(c)') =>
                 /\ stats'.totalDeletes = stats.totalDeletes + 1
                 /\ Len(stats'.responseTimes) = Len(stats.responseTimes) + 1
                 /\ IsRejection(LastOutcome(c)') =>
                       \A category \in Categories :
                           CategoryCount(stats', category) =
                               CategoryCount(stats, category)
                                 + (IF category = getErrorType(LastOutcome(c)'.error)
                                    THEN 1 ELSE 0)]_vars
    /\ [][(\A c \in Calls : ~Settles(c)) => stats' = stats]_vars
    /\ []((\A c \in Calls : ~CallbackThrew(c))
             => stats.totalDeletes = Cardinality({c \in Calls : Settled(c)}))

\* a call that was retried after a network error and then failed for good
\* with a permission error: one delete, one sample, counted as "permission"
C34_Witness ==
    /\ Settled(1) /\ ~CallbackThrew(1) /\ ~Started(2)
    /\ Invocations(1) = 2
    /\ getErrorType(calls[1].run.outcomes[1].error) = "network"
    /\ getErrorType(LastOutcome(1).error) = "permission"
    /\ stats.totalDeletes = 1
    /\ Len(stats.responseTimes) = 1
    /\ CategoryCount(stats, "permission") = 1
    /\ CategoryCount(stats, "network") = 0

\* optimisticDelete and then rollbackDelete were called, and nothing else
RoundTripDone == calls[1].log = <<"remove", "reinsert">>

NewestFirst(coll) ==
    \A i, j \in 1..Len(coll) : i < j => coll[i].created_at >= coll[j].created_at

\* no entity that comes after entity id in the collection has its created_at
NoLaterTie(coll, id) ==
    \A i, j \in 1..Len(coll) :
        (i < j /\ coll[i].id = id) => coll[j].created_at # coll[i].created_at

C36_RollbackClears ==
    [][\A id \in Ids :
          (OptRollback(1, id) \/ OptConfirm(1, id)) =>
              /\ ~MapHas(deletedProjects', id)
              /\ ~MapHas(rollbackCallbacks', id)]_vars

\* the objects currently tracked under a tag
TrackedUnder(type) == {obj \in DOMAIN references : references[obj] = type}

(* C38 -- in every reachable state of a MemoryLeakDetector the count of    *)
(* each tag equals the number of distinct objects currently tracked under  *)
(* that tag, also after an object that was already tracked was tracked     *)
(* again under the same or another tag; so when every tracked object has   *)
(* been untracked every count is 0.                                        *)
C38_CountsTrackedObjects ==
    \A type \in LeakTags :
        CountIn(counters, type) = Cardinality(TrackedUnder(type))

(* C37 -- executeDelete pairs every trackObject with an untrackObject:     *)
(* whenever no executeDelete call is in flight, whether the calls made so  *)
(* far succeeded or failed, the detector's count of 'DeleteProjectData' is *)
(* what it was before the first call (zero), also when overlapping calls   *)
(* were given the same snapshot object.                                    *)
C37_TracksPaired ==
    (\A c \in Calls : ~InFlight(c)) => CountIn(counters, LeakTag) = 0

\* the manager ls has registered this listener for this target and type
Registered(ls, info) == \E key \in DOMAIN ls : ls[key] = info

(* C39 -- the EventListenerManager treats only true duplicates as          *)
(* duplicates.  After addEventListener(target, type, listener) the         *)
(* listener is attached to the target and registered; when that same       *)
(* target, type and listener was registered already the call attached and  *)
(* registered nothing, and in no other case, so a different target or a    *)
(* different listener function is never taken for a duplicate.  Whatever   *)
(* removeEventListener removes from the registry it has detached from the  *)
(* target it was attached to.                                              *)
C39_OnlyTrueDuplicates ==
    calls[1].log # <<>> =>
        LET entry == calls[1].log[Len(calls[1].log)] IN
        /\ entry.op = "addEventListener" =>
              /\ entry.info \in attached
              /\ Registered(listeners, entry.info)
              /\ Registered(entry.before.listeners, entry.info) =>
                    /\ listeners = entry.before.listeners
                    /\ attached = entry.before.attached
        /\ entry.op = "removeEventListener" =>
              \A key \in DOMAIN entry.before.listeners \ DOMAIN listeners :
                  entry.before.listeners[key] \notin attached

====
